---------------------------- MODULE Spec2Model ----------------------------
(***************************************************************************)
(* Model of ravilvildanov/trader_report: settlement of brokerage trades    *)
(* against a currency rate table, position aggregation, closed-position    *)
(* P&L, coverage of negative balances from prior-period lots and the       *)
(* reconciliation of declared balances.                                    *)
(*                                                                         *)
(* Two revisions of the pipeline live in the repository and both are       *)
(* modelled:                                                               *)
(*   - process_trades.py            (class TradeReportProcessor, main())   *)
(*   - src/*.py                     (TradeDataProcessor,                   *)
(*                                   TradeSummaryCalculator,               *)
(*                                   NegativeBalanceHandler,               *)
(*                                   SecuritiesCalculator/Merger,          *)
(*                                   TradeReportProcessor.process())       *)
(*                                                                         *)
(* Conventions                                                             *)
(*   money      integers counting hundredths (Decimal quantum 0.01)        *)
(*   rates      integers counting hundredths of a rouble per unit          *)
(*   amounts    pairs <<n, d>>: the exact value n/d hundredths (d = 1 for  *)
(*              every parsed row; d > 1 only for a lot scaled by use/qty)  *)
(*   dates      integers (day numbers)                                     *)
(*   None/NaN   the empty tuple <<>>; a present value v is <<v>>           *)
(*   strings    tuples of one-character strings, transliterated:           *)
(*              'Покупка' = Pokupka, 'Продажа' = Prodaja, 'Купля' = Kuplya *)
(***************************************************************************)
EXTENDS Integers, Sequences, FiniteSets, TLC

VARIABLES
    driver,                      \* which entry point runs: "main" (process_trades.main),
                                 \* "components" (the classes under src/ called in
                                 \* turn), "process" (src TradeReportProcessor.process),
                                 \* "merge_and_calculate" / "_process_data" (the
                                 \* settlement step of either revision on its own),
                                 \* "recalculate_additional_trades" (the
                                 \* re-settlement of process_trades.py on its own,
                                 \* called on the object a coverage call left),
                                 \* "pdf" (the line parser of the PDF loaders),
                                 \* "main_pdf" (process_trades.main on a PDF broker
                                 \* report),
                                 \* "repeat" (the classes under src/ with the
                                 \* coverage step and the summary run MaxRuns times)
    pc,                          \* position of the driver that is running
    trades,                      \* self.trades: current-period rows as loaded
    rates,                       \* self.rates: (data, curs) rows sorted by data
    previous_trades,             \* prior-period rows as loaded
    securities_df,               \* declared end-of-period balances ('На конец')
    processed,                   \* self.processed / self.trades_in_rub_df
    summary,                     \* self.summary / summary_df
    closed_summary,              \* self.closed_summary
    calculated_securities_df,    \* TradeReportProcessor.calculated_securities_df
    merged_securities_df,        \* TradeReportProcessor.merged_securities_df
    insufficient_tickers,        \* TradeReportProcessor.insufficient_tickers
    previous_selected_trades_df, \* TradeReportProcessor.previous_selected_trades_df
    pdf_lines,                   \* the lines of the trades section of a PDF report
    pdf_trades,                  \* the records the PDF line parser collected
    coverage_runs                \* coverage runs made so far on the working table

vars == <<driver, pc, trades, rates, previous_trades, securities_df, processed, summary,
          closed_summary, calculated_securities_df, merged_securities_df,
          insufficient_tickers, previous_selected_trades_df, pdf_lines, pdf_trades,
          coverage_runs>>

inputs == <<driver, trades, rates, previous_trades, securities_df>>
securities_vars == <<calculated_securities_df, merged_securities_df,
                     insufficient_tickers, previous_selected_trades_df>>
pdf_vars == <<pdf_lines, pdf_trades>>

-----------------------------------------------------------------------------
(* Generic helpers                                                         *)

Absent == <<>>
Some(v) == <<v>>
IsAbsent(o) == o = <<>>
Val(o) == o[1]

Abs(x) == IF x < 0 THEN -x ELSE x
Min2(a, b) == IF b < a THEN b ELSE a

RECURSIVE SumSeq(_)
SumSeq(s) == IF s = <<>> THEN 0 ELSE Head(s) + SumSeq(Tail(s))


Range(s) == {s[i] : i \in DOMAIN s}

\* stable insertion of a row into a sequence sorted ascending by column key
RECURSIVE InsertAsc(_, _, _)
InsertAsc(s, r, key) ==
    IF s = <<>> THEN <<r>>
    ELSE IF r[key] < Head(s)[key] THEN <<r>> \o s
         ELSE <<Head(s)>> \o InsertAsc(Tail(s), r, key)

\* df.sort_values(key): ascending, rows with equal keys keep their order
RECURSIVE SortAsc(_, _)
SortAsc(s, key) ==
    IF s = <<>> THEN <<>>
    ELSE InsertAsc(SortAsc(SubSeq(s, 1, Len(s) - 1), key), s[Len(s)], key)

RECURSIVE InsertDesc(_, _, _)
InsertDesc(s, r, key) ==
    IF s = <<>> THEN <<r>>
    ELSE IF r[key] > Head(s)[key] THEN <<r>> \o s
         ELSE <<Head(s)>> \o InsertDesc(Tail(s), r, key)

\* df.sort_values(key, ascending=False)
RECURSIVE SortDesc(_, _)
SortDesc(s, key) ==
    IF s = <<>> THEN <<>>
    ELSE InsertDesc(SortDesc(SubSeq(s, 1, Len(s) - 1), key), s[Len(s)], key)

-----------------------------------------------------------------------------
(* Strings                                                                 *)

Pokupka == <<"P", "o", "k", "u", "p", "k", "a">>          \* 'Покупка'
Prodaja == <<"P", "r", "o", "d", "a", "j", "a">>          \* 'Продажа'
Kuplya  == <<"K", "u", "p", "l", "y">>                    \* 'Купля'
Perevod == <<"P", "e", "r", "e", "v", "o", "d">>          \* a label of neither lexicon
PokupkaPrev == Pokupka \o <<" ", "(", "p", "p", ")">>     \* 'Покупка (прошлый период)'

Otkrytie == <<"O", "t", "k", "r", "y", "t", "i", "e">>    \* 'Открытие'

\* str.lower() on the characters the labels use
LowerChar(c) ==
    CASE c = "P" -> "p"
      [] c = "K" -> "k"
      [] c = "B" -> "b"
      [] c = "S" -> "s"
      [] c = "O" -> "o"
      [] c = "U" -> "u"
      [] c = "Y" -> "y"
      [] c = "L" -> "l"
      [] c = "E" -> "e"
      [] c = "A" -> "a"
      [] OTHER -> c

Lower(s) == [i \in DOMAIN s |-> LowerChar(s[i])]

\* Python's `needle in hay`
Contains(hay, needle) ==
    \E i \in 0..(Len(hay) - Len(needle)) :
        SubSeq(hay, i + 1, i + Len(needle)) = needle

\* str.strip() for the blank
RECURSIVE Strip(_)
Strip(s) ==
    IF s = <<>> THEN s
    ELSE IF Head(s) = " " THEN Strip(Tail(s))
    ELSE IF s[Len(s)] = " " THEN Strip(SubSeq(s, 1, Len(s) - 1))
    ELSE s

\* a variant of _normalize_operation that compares the whole label with the
\* lexicon instead of searching the label for it
NormalizeOperationExact(raw) ==
    LET op == Strip(raw)
        op_lower == Lower(op) IN
    IF op_lower \in {Lower(Pokupka), Lower(Kuplya), <<"b", "u", "y">>}
    THEN Pokupka
    ELSE IF op_lower \in {Lower(Prodaja), <<"s", "e", "l", "l">>}
         THEN Prodaja
         ELSE op

\* a variant of _normalize_operation that removes at most one blank from each
\* end of the label
NormalizeOperationStripOnce(raw) ==
    LET left == IF raw # <<>> /\ Head(raw) = " " THEN Tail(raw) ELSE raw
        op == IF left # <<>> /\ left[Len(left)] = " "
              THEN SubSeq(left, 1, Len(left) - 1) ELSE left
        op_lower == Lower(op) IN
    IF Contains(op_lower, <<"p", "o", "k", "u", "p">>)
          \/ Contains(op_lower, <<"k", "u", "p", "l">>)
          \/ Contains(op_lower, <<"b", "u", "y">>)
    THEN Pokupka
    ELSE IF Contains(op_lower, <<"p", "r", "o", "d", "a", "j">>)
               \/ Contains(op_lower, <<"s", "e", "l", "l">>)
         THEN Prodaja
         ELSE op

\* _normalize_operation (the same text in process_trades.py,
\* src/trade_data_processor.py and src/data_loaders.py)
NormalizeOperation(raw) ==
    LET op == Strip(raw)
        op_lower == Lower(op) IN
    IF Contains(op_lower, <<"p", "o", "k", "u", "p">>)
          \/ Contains(op_lower, <<"k", "u", "p", "l">>)
          \/ Contains(op_lower, <<"b", "u", "y">>)
    THEN Pokupka
    ELSE IF Contains(op_lower, <<"p", "r", "o", "d", "a", "j">>)
               \/ Contains(op_lower, <<"s", "e", "l", "l">>)
         THEN Prodaja
         ELSE op

\* the filter of load_previous_period_data and load_previous_period_report:
\* df['Операция'].str.contains('Покупка|Купля|Buy|Открытие', case=False)
\* (every prior-period report of the model carries the 'Операция' column; a
\* report without it makes the loader raise ValueError before any step runs)
IsPreviousBuy(label) ==
    \E word \in {Lower(Pokupka), Lower(Kuplya), <<"b", "u", "y">>, Lower(Otkrytie)} :
        Contains(Lower(label), word)
load_previous_period_data(df) == SelectSeq(df, LAMBDA r : IsPreviousBuy(r.Operation))

\* `'Покупка' in str(row['Операция'])`
IsBuyTagged(op) == Contains(op, Pokupka)

-----------------------------------------------------------------------------
(* Decimal arithmetic                                                      *)

\* Decimal('0.01'): hundredths per unit
CentsPerUnit == 100

\* num/den rounded to an integer, ties away from zero (ROUND_HALF_UP)
RoundHalfUp(num, den) ==
    LET a == Abs(num)
        q == a \div den
        r == a % den
        m == IF 2 * r >= den THEN q + 1 ELSE q
    IN IF num < 0 THEN 0 - m ELSE m

\* num/den rounded to an integer, ties to the even neighbour (ROUND_HALF_EVEN)
RoundHalfEven(num, den) ==
    LET a == Abs(num)
        q == a \div den
        r == a % den
        m == IF 2 * r > den THEN q + 1
             ELSE IF 2 * r < den THEN q
             ELSE IF q % 2 = 0 THEN q ELSE q + 1
    IN IF num < 0 THEN 0 - m ELSE m

\* the rounding of the decimal context in force where the code runs
\* process_trades.py sets getcontext().rounding = ROUND_HALF_UP
MonoRounding == "ROUND_HALF_UP"
\* the modules under src/ never touch the context: decimal's default
ModRounding == "ROUND_HALF_EVEN"

\* x.quantize(Decimal('0.01')) of the value num/den hundredths
Quantize(num, den, rounding) ==
    LET n == IF den < 0 THEN 0 - num ELSE num
        d == Abs(den)
    IN IF rounding = "ROUND_HALF_UP" THEN RoundHalfUp(n, d)
       ELSE RoundHalfEven(n, d)


-----------------------------------------------------------------------------
(* Missing values                                                          *)

\* Python None / a cell pandas left empty
None == Absent
\* float NaN or Decimal('NaN'): a value, but not a number
NaN == <<0, 0>>
\* pandas isna()
IsNA(o) == Len(o) # 1

-----------------------------------------------------------------------------
(* Rate table                                                              *)

\* the as-of join with exact matches left out (allow_exact_matches=False)
AsOfBackwardStrict(rs, d) ==
    LET sorted == SortAsc(rs, "data")
        idx == {i \in DOMAIN sorted : sorted[i].data < d}
    IN IF idx = {} THEN NaN
       ELSE Some(sorted[CHOOSE i \in idx : \A j \in idx : j <= i].curs)

\* pd.merge_asof(trades.sort_values('Расчеты'), rates.sort_values('data'),
\*               left_on='Расчеты', right_on='data', direction='backward'):
\* the 'curs' of the last rate row whose 'data' is <= the key, NaN if none
AsOfBackward(rs, d) ==
    LET sorted == SortAsc(rs, "data")
        idx == {i \in DOMAIN sorted : sorted[i].data <= d}
    IN IF idx = {} THEN NaN
       ELSE Some(sorted[CHOOSE i \in idx : \A j \in idx : j <= i].curs)

\* self.rates[self.rates['data'] <= trade_date].iloc[-1], None when empty
RateRowNotAfter(rs, d) ==
    LET le == SelectSeq(rs, LAMBDA e : e.data <= d)
    IN IF Len(le) > 0 THEN Some(le[Len(le)].curs) ELSE None

-----------------------------------------------------------------------------
(* Settlement                                                              *)

\* calc_sum: Decimal(Сумма) * Decimal(Курс), negated for a purchase, quantized
calc_sum(row, rounding) ==
    IF IsNA(row.Kurs) THEN NaN
    ELSE LET amount == row.Sum[1] * Val(row.Kurs)
         IN Some(Quantize(IF IsBuyTagged(row.Operation) THEN 0 - amount ELSE amount,
                          row.Sum[2] * CentsPerUnit, rounding))

\* df['Комиссия'] * df['Курс'], quantized
calc_commission(row, rounding) ==
    IF IsNA(row.Kurs) THEN NaN
    ELSE Some(Quantize(row.Commission[1] * Val(row.Kurs),
                       row.Commission[2] * CentsPerUnit, rounding))

\* (df['Сумма в руб'] - df['Комиссия брокера руб']).quantize(0.01)
calc_itog(sum_rub, comm_rub, rounding) ==
    IF IsNA(sum_rub) \/ IsNA(comm_rub) THEN NaN
    ELSE Some(Quantize(Val(sum_rub) - Val(comm_rub), 1, rounding))

\* the three rouble columns of one row that already carries 'Курс'
SettleRow(row, rounding) ==
    LET sum_rub == calc_sum(row, rounding)
        comm_rub == calc_commission(row, rounding)
    IN [row EXCEPT !.SumRub = sum_rub,
                   !.CommRub = comm_rub,
                   !.Itog = calc_itog(sum_rub, comm_rub, rounding)]

\* a loaded row widened to the columns of the working table (the commission
\* of a record of process_trades._parse_pdf_trades, which has the column
\* 'Рынок', is already a fraction of hundredths)
Widen(t) ==
    [Ticker |-> t.Ticker, Operation |-> t.Operation, Quantity |-> t.Quantity,
     Sum |-> <<t.Sum, 1>>,
     Commission |-> IF "Rynok" \in DOMAIN t THEN t.Commission ELSE <<t.Commission, 1>>,
     TradeDate |-> t.TradeDate, Settle |-> t.Settle,
     Kurs |-> None, SumRub |-> None, CommRub |-> None, Itog |-> None]

\* the cells of a loaded row that cannot be parsed: "none", or one of
\* "number" ('Сумма'), "quantity" ('Количество'), "date" ('Расчеты')
WellFormed == "none"

\* pd.to_numeric(df['Количество'], errors='coerce').abs(): an unparsable
\* quantity becomes NaN and the row stays in the table
CoerceQuantity(row) ==
    IF row.Malformed = "quantity" THEN NaN ELSE Abs(row.Quantity)

\* TRUE when the settlement step raises: .apply(Decimal) on an unparsable
\* 'Сумма' raises decimal.InvalidOperation; an unparsable 'Расчеты' raises in
\* pd.to_datetime (process_trades.py) or, coerced to NaT, in merge_asof
\* ("Merge keys contain null values on left side")
SettlementRaises(df) ==
    \E i \in DOMAIN df : df[i].Malformed \in {"number", "date"}

\* the columns of a trade table (required_columns, without the price and the
\* two currency columns, which no later step of the model reads)
RequiredColumns ==
    {"Ticker", "Operation", "Quantity", "Sum", "Commission", "TradeDate", "Settle"}

\* dates run over 1..MaxDate
MaxDate == 3

\* pd.Timestamp.now(): a moment after every date of the reports
Now == MaxDate + 1

\* the value normalize_operations writes into a column the table lacks:
\* 0 for a numeric column, now for a date column, '' for every other column
\* (the ticker and the operation among them)
DefaultOf(col) ==
    CASE col \in {"Quantity", "Sum", "Commission"} -> 0
      [] col \in {"TradeDate", "Settle"} -> Now
      [] col = "Ticker" -> ""
      [] OTHER -> <<>>

\* a row with every column the table lacks created with its default
FillMissing(row) ==
    [col \in DOMAIN row \union RequiredColumns |->
        IF col \in DOMAIN row THEN row[col] ELSE DefaultOf(col)]

\* TradeDataProcessor.normalize_operations: missing columns created,
\* operation label normalized, quantity made a magnitude
normalize_operations(df) ==
    LET filled == [i \in DOMAIN df |-> FillMissing(df[i])]
    IN [i \in DOMAIN df |->
           [filled[i] EXCEPT !.Operation = NormalizeOperation(filled[i].Operation),
                             !.Quantity = CoerceQuantity(filled[i])]]

\* TradeDataProcessor.merge_with_rates
merge_with_rates(trades_df, rates_df) ==
    LET left == SortAsc(trades_df, "Settle")
    IN [i \in DOMAIN left |->
           [Widen(left[i]) EXCEPT !.Kurs = AsOfBackward(rates_df, left[i].Settle)]]

\* TradeDataProcessor.calculate_rub_amounts
calculate_rub_amounts(df) ==
    [i \in DOMAIN df |-> SettleRow(df[i], ModRounding)]

\* process_trades.TradeReportProcessor.merge_and_calculate
merge_and_calculate(trades_df, rates_df) ==
    LET df == [i \in DOMAIN trades_df |->
                  [trades_df[i] EXCEPT
                      !.Operation = NormalizeOperation(trades_df[i].Operation),
                      !.Quantity = CoerceQuantity(trades_df[i])]]
        left == SortAsc(df, "Settle")
        merged == [i \in DOMAIN left |->
                      [Widen(left[i]) EXCEPT
                          !.Kurs = AsOfBackward(rates_df, left[i].Settle)]]
    IN [i \in DOMAIN merged |-> SettleRow(merged[i], MonoRounding)]

\* a variant of recalculate_additional_trades that settles a row for which
\* no rate is found at rate 0
recalculate_additional_trades_zero_rate(table, rs) ==
    [i \in DOMAIN table |->
        IF ~IsNA(table[i].Kurs) THEN table[i]
        ELSE LET rate == RateRowNotAfter(rs, table[i].Settle)
             IN SettleRow([table[i] EXCEPT !.Kurs = IF rate = None THEN Some(0)
                                                    ELSE rate], MonoRounding)]

\* process_trades.TradeReportProcessor.recalculate_additional_trades:
\* every row whose 'Курс' is missing is looked up and settled in place;
\* a row for which no rate is found is left as it is
recalculate_additional_trades(table, rs) ==
    [i \in DOMAIN table |->
        IF ~IsNA(table[i].Kurs) THEN table[i]
        ELSE LET rate == RateRowNotAfter(rs, table[i].Settle)
             IN IF rate = None THEN table[i]
                ELSE SettleRow([table[i] EXCEPT !.Kurs = rate], MonoRounding)]


-----------------------------------------------------------------------------
(* Coverage of a negative balance from prior-period lots                   *)

\* the dict built at process_trades.py:495-508: the lot scaled by
\* amount_to_use / available_amount (binary floating point in the code,
\* kept exact here), no 'Дата сделки', rate and rouble columns None
additional_trade_mono(ticker, buy_row, amount_to_use) ==
    [Ticker |-> ticker, Operation |-> PokupkaPrev, Quantity |-> amount_to_use,
     Sum |-> <<buy_row.Sum * amount_to_use, buy_row.Quantity>>,
     Commission |-> <<buy_row.Commission * amount_to_use, buy_row.Quantity>>,
     TradeDate |-> None, Settle |-> buy_row.Settle,
     Kurs |-> None, SumRub |-> None, CommRub |-> None, Itog |-> None]

\* the dict built at negative_balance_handler.py:100-115: amount and
\* commission scaled in Decimal and quantized to 0.01
additional_trade_mod(ticker, buy_row, amount_to_use) ==
    [Ticker |-> ticker, Operation |-> PokupkaPrev, Quantity |-> amount_to_use,
     Sum |-> <<Quantize(buy_row.Sum * amount_to_use, buy_row.Quantity, ModRounding), 1>>,
     Commission |-> <<Quantize(buy_row.Commission * amount_to_use, buy_row.Quantity,
                               ModRounding), 1>>,
     TradeDate |-> Some(buy_row.TradeDate), Settle |-> buy_row.Settle,
     Kurs |-> None, SumRub |-> None, CommRub |-> None, Itog |-> None]

\* the loop over previous_buys.iterrows() of one ticker: the rows appended
\* until covered_amount >= remaining_to_cover or the lots run out.
\* revision is "mono" (process_trades.py) or "mod" (NegativeBalanceHandler)
RECURSIVE CoverWalk(_, _, _, _, _)
CoverWalk(revision, ticker, previous_buys, remaining_to_cover, covered_amount) ==
    IF previous_buys = <<>> \/ covered_amount >= remaining_to_cover THEN <<>>
    ELSE LET buy_row == Head(previous_buys)
             available_amount == buy_row.Quantity
             needed_amount == remaining_to_cover - covered_amount
             amount_to_use == Min2(available_amount, needed_amount)
         IN IF available_amount = 0 THEN <<>>   \* division by zero raises here
            ELSE <<IF revision = "mono"
                   THEN additional_trade_mono(ticker, buy_row, amount_to_use)
                   ELSE additional_trade_mod(ticker, buy_row, amount_to_use)>>
                 \o CoverWalk(revision, ticker, Tail(previous_buys),
                              remaining_to_cover, covered_amount + amount_to_use)

\* pd.read_excel types a numeric column float64 as soon as one cell is not a
\* whole number, int64 otherwise: TRUE when 'Сумма' or 'Комиссия' of the
\* prior-period report is a float column
FloatAmounts(df) ==
    \E i \in DOMAIN df : df[i].Sum % CentsPerUnit # 0
                         \/ df[i].Commission % CentsPerUnit # 0

\* TRUE when the loop raises and the run is aborted:
\*  - at a lot of quantity 0, amount_to_use / available_amount divides by zero
\*    (ZeroDivisionError; decimal.InvalidOperation in NegativeBalanceHandler);
\*  - in process_trades.py, at a lot used in part: amount_to_use is then the
\*    Decimal remaining_to_cover - covered_amount, and buy_row['Сумма'] *
\*    Decimal raises TypeError when the column holds floats
RECURSIVE CoverWalkRaises(_, _, _, _, _)
CoverWalkRaises(revision, float_amounts, previous_buys, remaining, covered) ==
    IF previous_buys = <<>> \/ covered >= remaining THEN FALSE
    ELSE LET available_amount == Head(previous_buys).Quantity
             needed_amount == remaining - covered
         IN IF available_amount = 0 THEN TRUE
            ELSE IF revision = "mono" /\ float_amounts
                       /\ needed_amount < available_amount
                 THEN TRUE
                 ELSE CoverWalkRaises(revision, float_amounts, Tail(previous_buys),
                                      remaining,
                                      covered + Min2(available_amount,
                                                            needed_amount))

-----------------------------------------------------------------------------
(* Position aggregation                                                    *)

\* the tickers of the model in the order groupby('Тикер') sorts them
TickerOrder == <<"A", "B">>
Tickers == Range(TickerOrder)

TickersOf(df) == {df[i].Ticker : i \in DOMAIN df}
RowsOf(df, ticker) == SelectSeq(df, LAMBDA r : r.Ticker = ticker)

\* sum of a column of optional values the way Series.sum() does it: missing
\* cells are skipped, an empty selection sums to 0
RECURSIVE SumSkipNA(_, _)
SumSkipNA(df, col) ==
    IF df = <<>> THEN 0
    ELSE (IF IsNA(Head(df)[col]) THEN 0 ELSE Val(Head(df)[col]))
         + SumSkipNA(Tail(df), col)

\* process_trades.aggregate_summary, 'Кол-во signed': a purchase counts
\* -quantity, every other row +quantity
signed_mono(r) == IF IsBuyTagged(r.Operation) THEN 0 - r.Quantity ELSE r.Quantity

\* TradeSummaryCalculator.calculate_summary and
\* SecuritiesCalculator.calculate_securities, 'Кол-во signed': a purchase
\* counts +quantity, every other row -quantity
signed_mod(r) == IF IsBuyTagged(r.Operation) THEN r.Quantity ELSE 0 - r.Quantity

RECURSIVE SumSignedMono(_)
SumSignedMono(df) ==
    IF df = <<>> THEN 0 ELSE signed_mono(Head(df)) + SumSignedMono(Tail(df))

RECURSIVE SumSignedMod(_)
SumSignedMod(df) ==
    IF df = <<>> THEN 0 ELSE signed_mod(Head(df)) + SumSignedMod(Tail(df))

\* builtin sum(s) over 'Итог в руб' raises TypeError on a None cell
SumRaises(df) == \E i \in DOMAIN df : df[i].Itog = None

\* builtin sum(s).quantize(0.01): NaN as soon as one cell is NaN
SumItogMono(df) ==
    IF \E i \in DOMAIN df : df[i].Itog = NaN THEN NaN
    ELSE Some(Quantize(SumSkipNA(df, "Itog"), 1, MonoRounding))

\* process_trades.TradeReportProcessor.aggregate_summary
aggregate_summary(df) ==
    [t \in TickersOf(df) |->
        [Saldo |-> SumSignedMono(RowsOf(df, t)),
         Result |-> SumItogMono(RowsOf(df, t))]]

\* TradeSummaryCalculator.calculate_summary: missing results are dropped,
\* 0.00 when none is left
calculate_summary(df) ==
    [t \in TickersOf(df) |->
        [Ostatok |-> SumSignedMod(RowsOf(df, t)),
         Result |-> Some(Quantize(SumSkipNA(RowsOf(df, t), "Itog"), 1, ModRounding))]]

\* SecuritiesCalculator.calculate_securities
calculate_securities(df) ==
    [t \in TickersOf(df) |-> SumSignedMod(RowsOf(df, t))]

-----------------------------------------------------------------------------
(* Closed positions                                                        *)

\* 'Итого'
Itogo == "Itogo"

\* a variant of closed_row that leaves the commissions out of the result
closed_row_gross(df, ticker, rounding) ==
    LET grp == RowsOf(df, ticker)
        sum_p == Quantize(0 - SumSkipNA(SelectSeq(grp, LAMBDA r : r.Operation = Pokupka),
                                        "SumRub"), 1, rounding)
        sum_s == Quantize(SumSkipNA(SelectSeq(grp, LAMBDA r : r.Operation = Prodaja),
                                    "SumRub"), 1, rounding)
        sum_c == Quantize(SumSkipNA(grp, "CommRub"), 1, rounding)
    IN [Ticker |-> ticker, SumP |-> sum_p, SumS |-> sum_s, SumC |-> sum_c,
        Itog |-> Quantize(sum_s - sum_p, 1, rounding)]

\* one row of the closed-position table for a ticker (both revisions run the
\* same text; only the rounding of the context differs)
closed_row(df, ticker, rounding) ==
    LET grp == RowsOf(df, ticker)
        sum_p == Quantize(0 - SumSkipNA(SelectSeq(grp, LAMBDA r : r.Operation = Pokupka),
                                        "SumRub"), 1, rounding)
        sum_s == Quantize(SumSkipNA(SelectSeq(grp, LAMBDA r : r.Operation = Prodaja),
                                    "SumRub"), 1, rounding)
        sum_c == Quantize(SumSkipNA(grp, "CommRub"), 1, rounding)
    IN [Ticker |-> ticker, SumP |-> sum_p, SumS |-> sum_s, SumC |-> sum_c,
        Itog |-> Quantize(sum_s - sum_p - sum_c, 1, rounding)]

\* a variant of ClosedRows that gives every ticker of the table a row
RECURSIVE ClosedRowsOfAll(_, _, _, _)
ClosedRowsOfAll(df, order, closed, rounding) ==
    IF order = <<>> THEN <<>>
    ELSE (IF Head(order) \in closed \/ Head(order) \in TickersOf(df)
          THEN <<closed_row(df, Head(order), rounding)>> ELSE <<>>)
         \o ClosedRowsOfAll(df, Tail(order), closed, rounding)

\* the rows of the tickers selected by 'Сальдо' == 0 / 'Остаток' == 0, in the
\* order of the summary
RECURSIVE ClosedRows(_, _, _, _)
ClosedRows(df, order, closed, rounding) ==
    IF order = <<>> THEN <<>>
    ELSE (IF Head(order) \in closed
          THEN <<closed_row(df, Head(order), rounding)>> ELSE <<>>)
         \o ClosedRows(df, Tail(order), closed, rounding)

RECURSIVE SumCol(_, _)
SumCol(rows, col) ==
    IF rows = <<>> THEN 0 ELSE Head(rows)[col] + SumCol(Tail(rows), col)

\* a variant of WithTotal whose sums leave the first row out
WithTotalButFirst(rows, rounding) ==
    IF rows = <<>> THEN <<>>
    ELSE rows \o <<[Ticker |-> Itogo,
                    SumP |-> Quantize(SumCol(Tail(rows), "SumP"), 1, rounding),
                    SumS |-> Quantize(SumCol(Tail(rows), "SumS"), 1, rounding),
                    SumC |-> Quantize(SumCol(Tail(rows), "SumC"), 1, rounding),
                    Itog |-> Quantize(SumCol(Tail(rows), "Itog"), 1, rounding)]>>

\* a variant of WithTotal that appends the 'Итого' row to an empty table too
WithTotalAlways(rows, rounding) ==
    rows \o <<[Ticker |-> Itogo,
               SumP |-> Quantize(SumCol(rows, "SumP"), 1, rounding),
               SumS |-> Quantize(SumCol(rows, "SumS"), 1, rounding),
               SumC |-> Quantize(SumCol(rows, "SumC"), 1, rounding),
               Itog |-> Quantize(SumCol(rows, "Itog"), 1, rounding)]>>

\* the 'Итого' row appended when the table is not empty
WithTotal(rows, rounding) ==
    IF rows = <<>> THEN <<>>
    ELSE rows \o <<[Ticker |-> Itogo,
                    SumP |-> Quantize(SumCol(rows, "SumP"), 1, rounding),
                    SumS |-> Quantize(SumCol(rows, "SumS"), 1, rounding),
                    SumC |-> Quantize(SumCol(rows, "SumC"), 1, rounding),
                    Itog |-> Quantize(SumCol(rows, "Itog"), 1, rounding)]>>

\* process_trades.TradeReportProcessor.compute_closed_summary
compute_closed_summary(df, summ) ==
    WithTotal(ClosedRows(df, TickerOrder,
                         {t \in DOMAIN summ : summ[t].Saldo = 0}, MonoRounding),
              MonoRounding)

\* TradeSummaryCalculator.calculate_closed_positions
calculate_closed_positions(df, summary_df) ==
    WithTotal(ClosedRows(df, TickerOrder,
                         {t \in DOMAIN summary_df : summary_df[t].Ostatok = 0},
                         ModRounding),
              ModRounding)


-----------------------------------------------------------------------------
(* process_trades.py: the coverage handler and the driver main()           *)

\* the loop over negative_tickers.iterrows() at process_trades.py:468-520:
\* the working table after the loop and whether the loop raised.  The rows
\* of a ticker are appended before the next ticker is walked, so a raise
\* keeps the rows of the tickers handled before it.  float_amounts tells
\* whether pd.read_excel typed the amount columns of the prior-period sheet
\* float64: the dtype of the whole sheet, which the filters keep.
RECURSIVE CoverTickersMono(_, _, _, _, _)
CoverTickersMono(order, table, summ, float_amounts, previous_sorted) ==
    IF order = <<>> THEN [table |-> table, raised |-> FALSE]
    ELSE LET ticker == Head(order)
             previous_buys == RowsOf(previous_sorted, ticker)
             remaining_to_cover == Abs(summ[ticker].Saldo)
         IN IF ~(ticker \in DOMAIN summ /\ summ[ticker].Saldo < 0)
            THEN CoverTickersMono(Tail(order), table, summ, float_amounts,
                                  previous_sorted)
            ELSE IF CoverWalkRaises("mono", float_amounts,
                                    previous_buys, remaining_to_cover, 0)
                 THEN [table |-> table, raised |-> TRUE]
                 ELSE CoverTickersMono(Tail(order),
                          table \o CoverWalk("mono", ticker, previous_buys,
                                             remaining_to_cover, 0),
                          summ, float_amounts, previous_sorted)

\* process_trades.TradeReportProcessor.identify_negative_balance_tickers
identify_negative_balance_tickers(summ) == {t \in DOMAIN summ : summ[t].Saldo < 0}

\* process_trades.TradeReportProcessor.process_negative_balance_with_previous_data
\* on the prior-period sheet `previous`: what it leaves in self.processed,
\* self.summary and self.closed_summary, and whether it raised.  Without a
\* negative balance it returns at once.  Otherwise self.processed holds the
\* rows appended at line 519, and the aggregate_summary() and
\* compute_closed_summary() of lines 523-524 run when the walk did not raise:
\* the aggregation raises over an appended row (its net result is None) and
\* leaves the two tables as they were; when nothing was appended both are
\* computed anew
process_negative_balance_with_previous_data(table, summ, closed, previous) ==
    LET previous_sorted == SortDesc(load_previous_period_data(previous), "Settle")
        out == CoverTickersMono(TickerOrder, table, summ, FloatAmounts(previous),
                                previous_sorted)
    IN IF identify_negative_balance_tickers(summ) = {}
       THEN [processed |-> table, summary |-> summ, closed_summary |-> closed,
             raised |-> FALSE]
       ELSE IF out.raised \/ SumRaises(out.table)
       THEN [processed |-> out.table, summary |-> summ, closed_summary |-> closed,
             raised |-> TRUE]
       ELSE [processed |-> out.table, summary |-> aggregate_summary(out.table),
             closed_summary |-> compute_closed_summary(out.table,
                                                       aggregate_summary(out.table)),
             raised |-> FALSE]

\* the processor object after merge_and_calculate, aggregate_summary and
\* process_negative_balance_with_previous_data were called in turn on a new
\* processor (self.closed_summary is an empty DataFrame until then)
after_coverage(trades_df, rates_df, previous) ==
    LET merged == merge_and_calculate(trades_df, rates_df)
    IN process_negative_balance_with_previous_data(merged, aggregate_summary(merged),
                                                   <<>>, previous)

\* proc.merge_and_calculate(); the empty DataFrame a PDF report without a
\* record gives has no column 'Операция' and raises KeyError
MergeAndCalculate ==
    /\ pc = "merge_and_calculate"
    /\ IF SettlementRaises(trades) \/ (driver = "main_pdf" /\ trades = <<>>)
       THEN /\ pc' = "raised"
            /\ UNCHANGED processed
       ELSE /\ processed' = merge_and_calculate(trades, rates)
            /\ pc' = IF driver = "merge_and_calculate" THEN "done"
                     ELSE "aggregate_summary"
    /\ UNCHANGED <<inputs, coverage_runs, pdf_vars, summary, closed_summary, securities_vars>>

\* proc.aggregate_summary() followed by identify_negative_balance_tickers()
\* and the branch of main() on its result and on args.previous
AggregateSummary ==
    /\ pc = "aggregate_summary"
    /\ IF SumRaises(processed)
       THEN /\ pc' = "raised"
            /\ UNCHANGED summary
       ELSE /\ summary' = aggregate_summary(processed)
            /\ pc' = IF /\ identify_negative_balance_tickers(summary') # {}
                        /\ previous_trades.given
                     THEN "process_negative_balance"
                     ELSE "compute_closed_summary"
    /\ UNCHANGED <<inputs, coverage_runs, pdf_vars, processed, closed_summary, securities_vars>>

\* proc.process_negative_balance_with_previous_data(previous_trades),
\* including the aggregate_summary() and compute_closed_summary() it ends with
ProcessNegativeBalanceWithPreviousData ==
    /\ pc = "process_negative_balance"
    /\ LET out == process_negative_balance_with_previous_data(
                      processed, summary, closed_summary, previous_trades.rows)
       IN /\ processed' = out.processed
          /\ summary' = out.summary
          /\ closed_summary' = out.closed_summary
          /\ pc' = IF out.raised THEN "raised" ELSE "recalculate_additional_trades"
    /\ coverage_runs' = coverage_runs + 1
    /\ UNCHANGED <<inputs, pdf_vars, securities_vars>>

\* proc.recalculate_additional_trades()
RecalculateAdditionalTrades ==
    /\ pc = "recalculate_additional_trades"
    /\ processed' = recalculate_additional_trades(processed, rates)
    /\ pc' = IF driver = "recalculate_additional_trades" THEN "done"
             ELSE "aggregate_summary_again"
    /\ UNCHANGED <<inputs, coverage_runs, pdf_vars, summary, closed_summary, securities_vars>>

\* the proc.aggregate_summary() that follows the re-settlement in main()
AggregateSummaryAgain ==
    /\ pc = "aggregate_summary_again"
    /\ IF SumRaises(processed)
       THEN /\ pc' = "raised"
            /\ UNCHANGED summary
       ELSE /\ summary' = aggregate_summary(processed)
            /\ pc' = "compute_closed_summary"
    /\ UNCHANGED <<inputs, coverage_runs, pdf_vars, processed, closed_summary, securities_vars>>

\* proc.compute_closed_summary(); proc.save() follows and changes nothing
ComputeClosedSummary ==
    /\ pc = "compute_closed_summary"
    /\ closed_summary' = compute_closed_summary(processed, summary)
    /\ pc' = "done"
    /\ UNCHANGED <<inputs, coverage_runs, pdf_vars, processed, summary, securities_vars>>


-----------------------------------------------------------------------------
(* src/: NegativeBalanceHandler and the component sequence                 *)

\* the loop over negative_tickers.iterrows() at
\* negative_balance_handler.py:81-121: all rows are collected first
RECURSIVE CoverTickersMod(_, _, _)
CoverTickersMod(order, summary_df, previous_sorted) ==
    IF order = <<>> THEN [rows |-> <<>>, raised |-> FALSE]
    ELSE LET ticker == Head(order)
             previous_buys == RowsOf(previous_sorted, ticker)
             remaining_to_cover == Abs(summary_df[ticker].Ostatok)
             rest == CoverTickersMod(Tail(order), summary_df, previous_sorted)
         IN IF ~(ticker \in DOMAIN summary_df /\ summary_df[ticker].Ostatok < 0)
            THEN rest
            ELSE IF CoverWalkRaises("mod", FALSE, previous_buys,
                                    remaining_to_cover, 0)
                 THEN [rows |-> <<>>, raised |-> TRUE]
                 ELSE [rows |-> CoverWalk("mod", ticker, previous_buys,
                                          remaining_to_cover, 0) \o rest.rows,
                       raised |-> rest.raised]

\* a variant of process_negative_balance that walks the lots of every ticker
\* of the summary, whatever the sign of its balance
RECURSIVE CoverEveryTicker(_, _, _)
CoverEveryTicker(order, summary_df, previous_sorted) ==
    IF order = <<>> THEN <<>>
    ELSE (IF Head(order) \in DOMAIN summary_df
          THEN CoverWalk("mod", Head(order), RowsOf(previous_sorted, Head(order)),
                         Abs(summary_df[Head(order)].Ostatok), 0)
          ELSE <<>>)
         \o CoverEveryTicker(Tail(order), summary_df, previous_sorted)
process_negative_balance_every_ticker(processed_df, summary_df, previous_trades_df) ==
    [table |-> processed_df \o CoverEveryTicker(TickerOrder, summary_df,
                                   SortDesc(previous_trades_df, "Settle")),
     raised |-> FALSE]

\* NegativeBalanceHandler.process_negative_balance: the table returned and
\* whether the call raised (then nothing is returned)
process_negative_balance(processed_df, summary_df, previous_trades_df) ==
    LET out == CoverTickersMod(TickerOrder, summary_df,
                               SortDesc(previous_trades_df, "Settle"))
    IN IF {t \in DOMAIN summary_df : summary_df[t].Ostatok < 0} = {}
       THEN [table |-> processed_df, raised |-> FALSE]
       ELSE IF out.raised THEN [table |-> processed_df, raised |-> TRUE]
            ELSE [table |-> processed_df \o out.rows, raised |-> FALSE]

\* TradeReportProcessor._process_data: normalize_operations, merge_with_rates
\* and calculate_rub_amounts in turn
ProcessData ==
    /\ pc = "_process_data"
    /\ IF SettlementRaises(trades)
       THEN /\ pc' = "raised"
            /\ UNCHANGED processed
       ELSE /\ processed' = calculate_rub_amounts(
                                merge_with_rates(normalize_operations(trades), rates))
            /\ pc' = CASE driver = "process" -> "_process_securities"
                       [] driver = "_process_data" -> "done"
                       [] OTHER -> "calculate_summary"
    /\ UNCHANGED <<inputs, coverage_runs, pdf_vars, summary, closed_summary, securities_vars>>

\* TradeSummaryCalculator.calculate_summary on the settled table
CalculateSummary ==
    /\ pc = "calculate_summary"
    /\ summary' = calculate_summary(processed)
    /\ pc' = IF previous_trades.given THEN "process_negative_balance_mod"
             ELSE "calculate_closed_positions"
    /\ UNCHANGED <<inputs, coverage_runs, pdf_vars, processed, closed_summary, securities_vars>>

\* NegativeBalanceHandler.process_negative_balance
ProcessNegativeBalance ==
    /\ pc = "process_negative_balance_mod"
    /\ LET out == process_negative_balance(processed, summary,
                                           load_previous_period_data(previous_trades.rows))
       IN IF out.raised
          THEN /\ pc' = "raised"
               /\ UNCHANGED processed
          ELSE /\ processed' = out.table
               /\ pc' = "calculate_summary_again"
    /\ coverage_runs' = coverage_runs + 1
    /\ UNCHANGED <<inputs, pdf_vars, summary, closed_summary, securities_vars>>

\* coverage runs a caller makes in turn on one prior-period pool
MaxRuns == 2

\* TradeSummaryCalculator.calculate_summary on the table the handler returned
CalculateSummaryAgain ==
    /\ pc = "calculate_summary_again"
    /\ summary' = calculate_summary(processed)
    /\ pc' = IF driver = "repeat" /\ coverage_runs < MaxRuns
             THEN "process_negative_balance_mod"
             ELSE "calculate_closed_positions"
    /\ UNCHANGED <<inputs, coverage_runs, pdf_vars, processed, closed_summary, securities_vars>>

\* TradeSummaryCalculator.calculate_closed_positions
CalculateClosedPositions ==
    /\ pc = "calculate_closed_positions"
    /\ closed_summary' = calculate_closed_positions(processed, summary)
    /\ pc' = "done"
    /\ UNCHANGED <<inputs, coverage_runs, pdf_vars, processed, summary, securities_vars>>


-----------------------------------------------------------------------------
(* src/: reconciliation against the declared balances                      *)

\* SecuritiesMerger.merge: outer join on 'Тикер'; a ticker missing on one
\* side gets NaN in that side's column
merge(securities, calculated) ==
    [t \in (DOMAIN securities) \union (DOMAIN calculated) |->
        [calc |-> IF t \in DOMAIN calculated THEN Some(calculated[t]) ELSE NaN,
         end |-> IF t \in DOMAIN securities THEN securities[t] ELSE NaN]]

\* a variant of find_insufficient_tickers without condition1
find_insufficient_tickers_equal_only(merged) ==
    LET condition2(r) == ~IsNA(r.calc) /\ ~IsNA(r.end) /\ Val(r.calc) = Val(r.end)
        insufficient == {t \in DOMAIN merged : ~condition2(merged[t])}
    IN [t \in insufficient |-> merged[t]]

\* SecuritiesMerger.find_insufficient_tickers: the rows of the merged table
\* that satisfy neither condition1 nor condition2
find_insufficient_tickers(merged) ==
    LET condition1(r) == (~IsNA(r.calc) /\ Val(r.calc) = 0) /\ IsNA(r.end)
        condition2(r) == ~IsNA(r.calc) /\ ~IsNA(r.end) /\ Val(r.calc) = Val(r.end)
        insufficient == {t \in DOMAIN merged :
                            ~(condition1(merged[t]) \/ condition2(merged[t]))}
    IN [t \in insufficient |-> merged[t]]

\* PreviousTradesManager.loadTrades: the reports concatenated and sorted by
\* 'Дата сделки' ascending
loadTrades(rows) == SortAsc(rows, "TradeDate")

\* the accumulation loop at trade_report_processor.py:146-159: whole lots are
\* taken, lots without a positive quantity are passed over, and the walk
\* stops once the accumulated quantity reaches needed_amount
RECURSIVE SelectLots(_, _, _)
SelectLots(ticker_trades, needed_amount, accumulated_amount) ==
    IF ticker_trades = <<>> THEN <<>>
    ELSE LET trade_row == Head(ticker_trades)
             quantity == trade_row.Quantity
         IN IF quantity <= 0
            THEN SelectLots(Tail(ticker_trades), needed_amount, accumulated_amount)
            ELSE <<[row |-> trade_row, accum |-> accumulated_amount + quantity]>>
                 \o (IF accumulated_amount + quantity >= needed_amount THEN <<>>
                     ELSE SelectLots(Tail(ticker_trades), needed_amount,
                                     accumulated_amount + quantity))

\* abs(calculated_balance) if present, plus abs(end_balance) if present
needed_amount_of(r) ==
    (IF IsNA(r.calc) THEN 0 ELSE Abs(Val(r.calc)))
    + (IF IsNA(r.end) THEN 0 ELSE Abs(Val(r.end)))

\* a variant of selected_records that walks the lots in the order of the
\* loaded table, oldest trade first
selected_records_oldest_first(ticker, r, previous_df) ==
    LET needed_amount == needed_amount_of(r)
        ticker_trades == SelectSeq(previous_df,
                             LAMBDA p : p.Ticker = ticker /\ p.Operation = Pokupka)
        selected_trades == SelectLots(ticker_trades, needed_amount, 0)
    IN IF needed_amount = 0 THEN <<>>
       ELSE [order \in DOMAIN selected_trades |->
                [Ticker |-> selected_trades[order].row.Ticker,
                 Quantity |-> selected_trades[order].row.Quantity,
                 TradeDate |-> selected_trades[order].row.TradeDate,
                 TickerIns |-> ticker,
                 Needed |-> needed_amount,
                 Accum |-> selected_trades[order].accum,
                 Order |-> order]]

\* the records of one insufficient ticker
selected_records(ticker, r, previous_df) ==
    LET needed_amount == needed_amount_of(r)
        ticker_trades == SortDesc(SelectSeq(previous_df,
                             LAMBDA p : p.Ticker = ticker /\ p.Operation = Pokupka),
                             "TradeDate")
        selected_trades == SelectLots(ticker_trades, needed_amount, 0)
    IN IF needed_amount = 0 THEN <<>>
       ELSE [order \in DOMAIN selected_trades |->
                [Ticker |-> selected_trades[order].row.Ticker,
                 Quantity |-> selected_trades[order].row.Quantity,
                 TradeDate |-> selected_trades[order].row.TradeDate,
                 TickerIns |-> ticker,
                 Needed |-> needed_amount,
                 Accum |-> selected_trades[order].accum,
                 Order |-> order]]

\* TradeReportProcessor._process_previous_trades_for_insufficient_tickers
RECURSIVE process_previous_trades(_, _, _)
process_previous_trades(order, insufficient, previous_df) ==
    IF order = <<>> THEN <<>>
    ELSE (IF Head(order) \in DOMAIN insufficient
          THEN selected_records(Head(order), insufficient[Head(order)], previous_df)
          ELSE <<>>)
         \o process_previous_trades(Tail(order), insufficient, previous_df)

\* TradeReportProcessor._process_securities
ProcessSecurities ==
    /\ pc = "_process_securities"
    /\ calculated_securities_df' = calculate_securities(processed)
    /\ merged_securities_df' = merge(securities_df, calculated_securities_df')
    /\ insufficient_tickers' = find_insufficient_tickers(merged_securities_df')
    /\ pc' = "_handle_previous_trades_if_needed"
    /\ UNCHANGED <<inputs, coverage_runs, pdf_vars, processed, summary, closed_summary,
                   previous_selected_trades_df>>

\* TradeReportProcessor._handle_previous_trades_if_needed
HandlePreviousTradesIfNeeded ==
    /\ pc = "_handle_previous_trades_if_needed"
    /\ previous_selected_trades_df' =
          IF DOMAIN insufficient_tickers # {} /\ previous_trades.given
                /\ previous_trades.rows # <<>>
          THEN process_previous_trades(TickerOrder, insufficient_tickers,
                   normalize_operations(loadTrades(previous_trades.rows)))
          ELSE <<>>
    /\ pc' = "done"
    /\ UNCHANGED <<inputs, coverage_runs, pdf_vars, processed, summary, closed_summary,
                   calculated_securities_df, merged_securities_df,
                   insufficient_tickers>>


-----------------------------------------------------------------------------
(* The line parser of the PDF loaders                                      *)

\* the words of the note that marks a batch transfer
BatchTransferTFOS == <<"Batch", "transfer", "TFOS">>

\* PDFDataLoader._parse_trade_line with _create_trade_record: a line of fewer
\* than 11 parts gives nothing; Decimal() of an unparsable amount raises
\* decimal.InvalidOperation, an ArithmeticError, which is not caught; int()
\* of an unparsable quantity and an unparsable date raise ValueError, which
\* is caught and the line dropped; a line whose note holds 'Batch transfer
\* TFOS' is dropped; the place is appended to the ticker and the sum of the
\* two commissions (thousandths in the model) is quantized to 0.01
parse_trade_line(line) ==
    IF line.Malformed = "short" THEN [outcome |-> "none"]
    ELSE IF line.Malformed = "quantity" THEN [outcome |-> "none"]
    ELSE IF line.Malformed = "number" THEN [outcome |-> "raise"]
    ELSE IF Contains(line.Note, BatchTransferTFOS) THEN [outcome |-> "none"]
    ELSE IF line.Malformed = "date" THEN [outcome |-> "none"]
    ELSE [outcome |-> "trade",
          trade |-> [Ticker |-> line.Ticker \o "." \o line.Place,
                     Operation |-> NormalizeOperation(line.Operation),
                     Quantity |-> Abs(line.Quantity),
                     Sum |-> Abs(line.Sum),
                     Commission |-> Quantize(line.BrokerCommission
                                             + line.ExchangeCommission, 10,
                                             ModRounding),
                     TradeDate |-> line.Date, Settle |-> line.Date,
                     Malformed |-> WellFormed]]

\* PDFDataLoader._parse_trades_from_text: the records of the lines in order,
\* or a raise that leaves nothing behind
RECURSIVE parse_trades_from_text(_)
parse_trades_from_text(lines) ==
    IF lines = <<>> THEN [trades |-> <<>>, raised |-> FALSE]
    ELSE LET trade == parse_trade_line(Head(lines))
             rest == parse_trades_from_text(Tail(lines))
         IN IF trade.outcome = "raise" \/ rest.raised
            THEN [trades |-> <<>>, raised |-> TRUE]
            ELSE [trades |-> (IF trade.outcome = "trade" THEN <<trade.trade>>
                              ELSE <<>>) \o rest.trades,
                  raised |-> FALSE]

\* PDFDataLoader.load: the parser run over the text of the report; an
\* exception is logged and raised again
ParseTradesFromText ==
    /\ pc = "_parse_trades_from_text"
    /\ LET out == parse_trades_from_text(pdf_lines)
       IN IF out.raised
          THEN /\ pc' = "raised"
               /\ UNCHANGED pdf_trades
          ELSE /\ pdf_trades' = out.trades
               /\ pc' = "loaded"
    /\ UNCHANGED <<inputs, coverage_runs, pdf_lines, processed, summary, closed_summary,
                   securities_vars>>

\* the body of the loop over the lines in process_trades._parse_pdf_trades:
\* the same checks without the note filter; the ticker is kept as it is, the
\* place goes to the column 'Рынок' and the commission is the unrounded sum
\* of the two commissions
parse_pdf_trade(line) ==
    IF line.Malformed = "short" THEN [outcome |-> "none"]
    ELSE IF line.Malformed = "quantity" THEN [outcome |-> "none"]
    ELSE IF line.Malformed = "number" THEN [outcome |-> "raise"]
    ELSE IF line.Malformed = "date" THEN [outcome |-> "none"]
    ELSE [outcome |-> "trade",
          trade |-> [Ticker |-> line.Ticker,
                     Rynok |-> line.Place,
                     Operation |-> NormalizeOperation(line.Operation),
                     Quantity |-> Abs(line.Quantity),
                     Sum |-> Abs(line.Sum),
                     Commission |-> <<line.BrokerCommission
                                      + line.ExchangeCommission, 10>>,
                     TradeDate |-> line.Date, Settle |-> line.Date,
                     Malformed |-> WellFormed]]

\* process_trades._parse_pdf_trades: the records of the lines in order (an
\* empty DataFrame, without columns, when there is none), or a raise
RECURSIVE parse_pdf_trades(_)
parse_pdf_trades(lines) ==
    IF lines = <<>> THEN [trades |-> <<>>, raised |-> FALSE]
    ELSE LET trade == parse_pdf_trade(Head(lines))
             rest == parse_pdf_trades(Tail(lines))
         IN IF trade.outcome = "raise" \/ rest.raised
            THEN [trades |-> <<>>, raised |-> TRUE]
            ELSE [trades |-> (IF trade.outcome = "trade" THEN <<trade.trade>>
                              ELSE <<>>) \o rest.trades,
                  raised |-> FALSE]

\* proc.preprocess() of process_trades.py on a PDF broker report:
\* load_broker_report parses the lines, load_currency_rates reads the rate
\* table the run was given, and the currency filter keeps every record (all
\* carry 'USD'; a report without a record has no 'Валюта' column)
Preprocess ==
    /\ pc = "preprocess"
    /\ LET out == parse_pdf_trades(pdf_lines)
       IN IF out.raised
          THEN /\ pc' = "raised"
               /\ UNCHANGED trades
          ELSE /\ trades' = out.trades
               /\ pc' = "merge_and_calculate"
    /\ UNCHANGED <<driver, rates, previous_trades, securities_df, coverage_runs, pdf_vars,
                   processed, summary, closed_summary, securities_vars>>


-----------------------------------------------------------------------------
(* Inputs                                                                  *)

\* largest quantity of one current-period row
MaxQty == 3
\* most prior-period lots of one ticker
MaxLots == 2
\* largest quantity of one prior-period lot
MaxLotQty == 2

\* a row of a report as the loader returns it
Row(ticker, operation, quantity, sum, commission, date) ==
    [Ticker |-> ticker, Operation |-> operation, Quantity |-> quantity,
     Sum |-> sum, Commission |-> commission, TradeDate |-> date, Settle |-> date,
     Malformed |-> WellFormed]

NoPrevious == [given |-> FALSE, rows |-> <<>>]
NoSecurities == [t \in {} |-> None]
EmptySummary == [t \in {} |-> [Saldo |-> 0, Result |-> None]]
EmptyMerged == [t \in {} |-> [calc |-> NaN, end |-> NaN]]

\* the state of a processor object right after construction and loading
Loaded(d, tr, rs, prev, secs) ==
    /\ driver = d
    /\ pc = CASE d \in {"main", "merge_and_calculate"} -> "merge_and_calculate"
              [] d = "pdf" -> "_parse_trades_from_text"
              [] OTHER -> "_process_data"
    /\ pdf_lines = <<>>
    /\ pdf_trades = <<>>
    /\ coverage_runs = 0
    /\ trades = tr
    /\ rates = rs
    /\ previous_trades = prev
    /\ securities_df = secs
    /\ processed = <<>>
    /\ summary = EmptySummary
    /\ closed_summary = <<>>
    /\ calculated_securities_df = [t \in {} |-> 0]
    /\ merged_securities_df = EmptyMerged
    /\ insufficient_tickers = EmptyMerged
    /\ previous_selected_trades_df = <<>>

\* rate tables: at most one rate per date, sorted by date as the loaders
\* return them, never empty
RateValues == {9000, 9050, 9250}
RateChoices == [1..MaxDate -> RateValues \union {0}]
RECURSIVE RateRows(_, _)
RateRows(f, d) ==
    IF d > MaxDate THEN <<>>
    ELSE (IF f[d] = 0 THEN <<>> ELSE <<[data |-> d, curs |-> f[d]]>>) \o RateRows(f, d + 1)
RateTables == {RateRows(f, 1) : f \in RateChoices} \ {<<>>}

\* settlement inputs: one trade whose amounts hit and miss the rounding ties
SettleSums == {100000, 1, 3}
SettleCommissions == {500, 1}
InitSettle ==
    \E d \in {"main", "components"}, op \in {Kuplya, Prodaja}, sm \in SettleSums,
       cm \in SettleCommissions, dt \in 1..MaxDate, rs \in RateTables :
        Loaded(d, <<Row("A", op, 10, sm, cm, dt)>>, rs, NoPrevious, NoSecurities)

\* the state of a process_trades processor object on which
\* merge_and_calculate, aggregate_summary and the coverage handler were
\* called in turn
LoadedAfterCoverage(tr, rs, rows) ==
    /\ driver = "recalculate_additional_trades"
    /\ pc = "recalculate_additional_trades"
    /\ pdf_lines = <<>>
    /\ pdf_trades = <<>>
    /\ coverage_runs = 1
    /\ trades = tr
    /\ rates = rs
    /\ previous_trades = [given |-> TRUE, rows |-> rows]
    /\ securities_df = NoSecurities
    /\ processed = after_coverage(tr, rs, rows).processed
    /\ summary = after_coverage(tr, rs, rows).summary
    /\ closed_summary = after_coverage(tr, rs, rows).closed_summary
    /\ calculated_securities_df = [t \in {} |-> 0]
    /\ merged_securities_df = EmptyMerged
    /\ insufficient_tickers = EmptyMerged
    /\ previous_selected_trades_df = <<>>

\* re-settlement inputs: a ticker bought twice over, one prior-period lot
InitResettle ==
    \E q \in 1..3, sm \in SettleSums, cm \in SettleCommissions, dt \in 1..MaxDate,
       rs \in RateTables :
        LoadedAfterCoverage(<<Row("A", Kuplya, 2, 1000, 10, MaxDate)>>, rs,
                            <<Row("A", Pokupka, q, sm, cm, dt)>>)

\* position inputs: per ticker a purchase, a sale and a row of neither kind,
\* each with a chosen quantity (0: no such row); the purchase of A may be
\* split in two rows
PositionRate == <<[data |-> 1, curs |-> 100]>>
\* amounts of the drawn rows, in hundredths
Amounts == [buy |-> 100000, sell |-> 120000, commission |-> 1000,
            lot |-> 1001, lotCommission |-> 11]
BuySum == Amounts.buy
SellSum == Amounts.sell
RowCommission == Amounts.commission
TradeDay == MaxDate

TickerRows(t, b, s, u, split) ==
    (IF b = 0 THEN <<>>
     ELSE IF split /\ b >= 2
          THEN <<Row(t, Kuplya, 1, BuySum, RowCommission, TradeDay),
                 Row(t, Pokupka, b - 1, BuySum * (b - 1), RowCommission, TradeDay)>>
          ELSE <<Row(t, Kuplya, b, BuySum * b, RowCommission, TradeDay)>>)
    \o (IF s = 0 THEN <<>> ELSE <<Row(t, Prodaja, s, SellSum * s, RowCommission, TradeDay)>>)
    \o (IF u = 0 THEN <<>> ELSE <<Row(t, Perevod, u, BuySum * u, RowCommission, TradeDay)>>)

TradeTables ==
    {TickerRows("A", b, s, u, split) \o TickerRows("B", bb, sb, 0, FALSE) :
        b \in 0..MaxQty, s \in 0..MaxQty, u \in 0..1, split \in BOOLEAN,
        bb \in 0..1, sb \in 0..2} \ {<<>>}

\* prior-period lots: up to MaxLots lots of A, dated in rising or falling
\* order, and possibly one lot of B
LotSum == Amounts.lot
LotCommission == Amounts.lotCommission
LotQtys == UNION {[1..n -> 0..MaxLotQty] : n \in 0..MaxLots}
LotRows(t, qs, rising) ==
    [i \in DOMAIN qs |->
        Row(t, Pokupka, qs[i], LotSum, LotCommission,
            IF rising THEN i ELSE Len(qs) + 1 - i)]
PreviousTables ==
    {NoPrevious} \union
    {[given |-> TRUE, rows |-> LotRows("A", qs, rising) \o lb] :
        qs \in LotQtys, rising \in BOOLEAN,
        lb \in {<<>>, <<Row("B", Kuplya, 2, LotSum, LotCommission, 1)>>}}

InitPositions ==
    \E d \in {"main", "components"}, tr \in TradeTables, prev \in PreviousTables :
        Loaded(d, tr, PositionRate, prev, NoSecurities)

\* re-settlement inputs without a usable lot: a shortfall of one unit of A
\* and a closed position in B, with no prior-period row or one of B only
InitUncovered ==
    \E rows \in {<<>>, <<Row("B", Kuplya, 2, LotSum, LotCommission, 1)>>} :
        LoadedAfterCoverage(
            TickerRows("A", 1, 0, 0, FALSE) \o TickerRows("B", 1, 1, 0, FALSE),
            PositionRate, rows)

\* reconciliation inputs: declared balances for a subset of the tickers
Unlisted == <<0, 0, 0>>
DeclaredA == {Unlisted} \union {NaN} \union {Some(n) : n \in 0..MaxLotQty}
InitReconcile ==
    \E b \in 0..MaxLotQty, s \in 0..MaxLotQty, bb \in 0..1, da \in DeclaredA,
       db \in {Unlisted, NaN, Some(1)}, prev \in PreviousTables :
        /\ b + s + bb > 0
        /\ Loaded("process",
                  TickerRows("A", b, s, 0, FALSE) \o TickerRows("B", bb, bb, 0, FALSE),
                  PositionRate, prev,
                  [t \in {x \in Tickers : (x = "A" /\ da # Unlisted)
                                          \/ (x = "B" /\ db # Unlisted)} |->
                      IF t = "A" THEN da ELSE db])

\* inputs without a shortfall in one revision or the other: one purchase or
\* sale of A settling on any date, one prior-period lot of A
InitNoShortfall ==
    \E d \in {"main", "components", "recalculate_additional_trades"},
       op \in {Kuplya, Prodaja}, dt \in 1..MaxDate, rs \in RateTables :
        LET tr == <<Row("A", op, 2, BuySum, RowCommission, dt)>>
            rows == <<Row("A", Pokupka, 1, LotSum, LotCommission, 1)>>
        IN IF d = "recalculate_additional_trades"
           THEN LoadedAfterCoverage(tr, rs, rows)
           ELSE Loaded(d, tr, rs, [given |-> TRUE, rows |-> rows], NoSecurities)

\* operation labels: the plain ones, upper case, a composite label, a label
\* of both lexicons, two padded labels of neither, the empty label
Labels ==
    {Pokupka, Prodaja, Kuplya, Perevod,
     <<"B", "U", "Y">>, <<"S", "E", "L", "L">>,
     <<"S", "w", "a", "p", ".", " ">> \o Pokupka \o <<".">>,
     Prodaja \o <<"/">> \o Pokupka,
     <<" ">> \o Perevod \o <<" ">>,
     <<" ", " ">> \o Perevod \o <<" ", " ">>,
     <<>>}
InitLabels ==
    \E d \in {"merge_and_calculate", "_process_data"}, la \in Labels, lb \in Labels :
        Loaded(d, <<Row("A", la, 1, BuySum, RowCommission, TradeDay),
                    Row("B", lb, 1, BuySum, RowCommission, TradeDay)>>,
               PositionRate, NoPrevious, NoSecurities)

\* lot-order inputs: sales of A and two prior-period lots of A, each with a
\* trade date and a settlement date on or after it, the two lots unlike in
\* their dates
LotDates == {<<td, sd>> : td \in 1..MaxDate, sd \in 1..MaxDate} \ {<<td, sd>> \in (1..MaxDate) \X (1..MaxDate) : sd < td}
DatedLot(t, q, dates) ==
    [Row(t, Pokupka, q, LotSum, LotCommission, dates[1]) EXCEPT !.Settle = dates[2]]
InitLotOrder ==
    \E d \in {"components", "process"}, sold \in 1..MaxQty, qa \in 1..MaxLotQty,
       qb \in 1..MaxLotQty, da \in LotDates, db \in LotDates :
        /\ da # db
        /\ Loaded(d, TickerRows("A", 0, sold, 0, FALSE), PositionRate,
                  [given |-> TRUE,
                   rows |-> <<DatedLot("A", qa, da), DatedLot("A", qb, db)>>],
                  IF d = "process" THEN [t \in {"A"} |-> Some(0)] ELSE NoSecurities)

\* lot-pool inputs: a shortfall of one unit of A in the revision that runs,
\* and one prior-period row of A under a label of the buy lexicon, of the
\* sell lexicon, of neither, or of a swap opening
OtkrytieProdaja == Otkrytie \o <<".", " ">> \o Prodaja \o <<".">>
PoolLabels == {Pokupka, Kuplya, Prodaja, Perevod, Otkrytie, OtkrytieProdaja}
InitPool ==
    \E d \in {"components", "main", "process"}, label \in PoolLabels :
        Loaded(d,
               IF d = "main" THEN TickerRows("A", 1, 0, 0, FALSE)
               ELSE TickerRows("A", 0, 1, 0, FALSE),
               PositionRate,
               [given |-> TRUE,
                rows |-> <<Row("A", label, 1, BuySum, RowCommission, 1)>>],
               IF d = "process" THEN [t \in {"A"} |-> Some(0)] ELSE NoSecurities)

\* repeated-coverage inputs: sales of A and one or two prior-period lots of
\* A of positive quantity
InitRepeat ==
    \E sold \in 1..MaxQty, qs \in UNION {[1..n -> 1..MaxLotQty] : n \in 1..MaxLots} :
        Loaded("repeat", TickerRows("A", 0, sold, 0, FALSE), PositionRate,
               [given |-> TRUE, rows |-> LotRows("A", qs, TRUE)], NoSecurities)

\* signed inputs: a row of A of the period and a prior-period purchase of A,
\* each with its quantity written with either sign
SignedQtys == {0 - 2, 0 - 1, 1, 2}
InitSigned ==
    \E d \in {"components", "main"}, cq \in {0 - 2, 2}, lq \in SignedQtys :
        Loaded(d,
               <<Row("A", IF d = "main" THEN Kuplya ELSE Prodaja, cq,
                     BuySum, RowCommission, TradeDay)>>,
               PositionRate,
               [given |-> TRUE,
                rows |-> <<Row("A", Pokupka, lq, BuySum, RowCommission, 1)>>],
               NoSecurities)

\* mixed prior-period sheets: a shortfall of one unit of A in
\* process_trades.main, a purchase of two units of A with whole amounts and
\* a sale of A whose amounts are whole or have a fraction (the sale is no
\* lot, and its cells are in the columns pd.read_excel typed)
InitMixedSheet ==
    \E sm \in {1000, 1001}, cm \in {0, 11} :
        Loaded("main", TickerRows("A", 1, 0, 0, FALSE), PositionRate,
               [given |-> TRUE,
                rows |-> <<Row("A", Kuplya, 2, 100000, 500, 1),
                           Row("A", Prodaja, 1, sm, cm, 2)>>],
               NoSecurities)

\* most lines of the trades section of a PDF report
MaxLines == 3

\* trade tables that lack one or two of their columns: the loader strips the
\* column names and passes the table on as it is
WithoutColumns(row, missing) ==
    [col \in DOMAIN row \ missing |-> row[col]]
InitMissing ==
    \E missing \in {m \in SUBSET RequiredColumns : Cardinality(m) \in 1..2},
       n \in 1..2 :
        Loaded("_process_data",
               [i \in 1..n |->
                   WithoutColumns(Row(TickerOrder[i], Kuplya, 0 - 1, BuySum,
                                      RowCommission, TradeDay), missing)],
               PositionRate, NoPrevious, NoSecurities)

\* malformed inputs of the settlement step: one or two rows, each well
\* formed or with one cell that cannot be parsed
MalformedKinds == {WellFormed, "number", "quantity", "date"}
MalformedRow(t, k) ==
    [Row(t, Kuplya, 1, BuySum, RowCommission, TradeDay) EXCEPT !.Malformed = k]
InitMalformed ==
    \E d \in {"merge_and_calculate", "_process_data"},
       ks \in UNION {[1..n -> MalformedKinds] : n \in 1..2} :
        Loaded(d, [i \in DOMAIN ks |-> MalformedRow(TickerOrder[i], ks[i])],
               PositionRate, NoPrevious, NoSecurities)

\* lines of a PDF report: each well formed, too short, or with one part that
\* cannot be parsed, with a plain note or the note of a batch transfer; the
\* two commissions are in thousandths and add up to 10.005
PdfNotes == {<<"note">>, <<"x">> \o BatchTransferTFOS}
PdfLine(t, k, note) ==
    [Ticker |-> t, Operation |-> Kuplya, Quantity |-> 0 - 1, Sum |-> 0 - BuySum,
     BrokerCommission |-> 6005, ExchangeCommission |-> 4000, Note |-> note,
     Place |-> "NASDAQ", Date |-> TradeDay, Malformed |-> k]
InitPdf ==
    \E ks \in UNION {[1..n -> (MalformedKinds \union {"short"}) \X PdfNotes] :
                        n \in 1..MaxLines} :
        /\ driver = "pdf"
        /\ pc = "_parse_trades_from_text"
        /\ pdf_lines = [i \in DOMAIN ks |-> PdfLine("A", ks[i][1], ks[i][2])]
        /\ pdf_trades = <<>>
        /\ coverage_runs = 0
        /\ trades = <<>>
        /\ rates = PositionRate
        /\ previous_trades = NoPrevious
        /\ securities_df = NoSecurities
        /\ processed = <<>>
        /\ summary = EmptySummary
        /\ closed_summary = <<>>
        /\ calculated_securities_df = [t \in {} |-> 0]
        /\ merged_securities_df = EmptyMerged
        /\ insufficient_tickers = EmptyMerged
        /\ previous_selected_trades_df = <<>>

\* PDF reports read by process_trades.main: one or two lines, each with a
\* label of its own (line.split() leaves no blank in a label and no empty
\* label), well formed or with a quantity that cannot be parsed
PdfLabels == {l \in Labels : l # <<>> /\ \A i \in DOMAIN l : l[i] # " "}
InitPdfLabels ==
    \E ls \in UNION {[1..n -> PdfLabels \X {WellFormed, "quantity"}] : n \in 1..2} :
        /\ driver = "main_pdf"
        /\ pc = "preprocess"
        /\ pdf_lines = [i \in DOMAIN ls |->
                           [PdfLine(TickerOrder[i], ls[i][2], <<"note">>)
                               EXCEPT !.Operation = ls[i][1]]]
        /\ pdf_trades = <<>>
        /\ coverage_runs = 0
        /\ trades = <<>>
        /\ rates = PositionRate
        /\ previous_trades = NoPrevious
        /\ securities_df = NoSecurities
        /\ processed = <<>>
        /\ summary = EmptySummary
        /\ closed_summary = <<>>
        /\ calculated_securities_df = [t \in {} |-> 0]
        /\ merged_securities_df = EmptyMerged
        /\ insufficient_tickers = EmptyMerged
        /\ previous_selected_trades_df = <<>>

Init ==
    \/ InitSettle
    \/ InitResettle
    \/ InitPositions
    \/ InitReconcile
    \/ InitMalformed
    \/ InitNoShortfall
    \/ InitLabels
    \/ InitLotOrder
    \/ InitPool
    \/ InitRepeat
    \/ InitSigned
    \/ InitMissing
    \/ InitPdf
    \/ InitPdfLabels
    \/ InitMixedSheet
    \/ InitUncovered

Next ==
    \/ MergeAndCalculate
    \/ AggregateSummary
    \/ ProcessNegativeBalanceWithPreviousData
    \/ RecalculateAdditionalTrades
    \/ AggregateSummaryAgain
    \/ ComputeClosedSummary
    \/ ProcessData
    \/ CalculateSummary
    \/ ProcessNegativeBalance
    \/ CalculateSummaryAgain
    \/ CalculateClosedPositions
    \/ ProcessSecurities
    \/ HandlePreviousTradesIfNeeded
    \/ ParseTradesFromText
    \/ Preprocess

Spec == Init /\ [][Next]_vars


-----------------------------------------------------------------------------
(* Properties                                                              *)

\* round2 of the specification: the hundredth nearest to num/den, an exact
\* half going away from zero
Round2(num, den) ==
    LET q == Abs(num) \div den
        rest == Abs(num) % den
        m == CHOOSE c \in {q, q + 1} :
                 \/ (c = q /\ 2 * rest < den)
                 \/ (c = q + 1 /\ 2 * rest >= den)
    IN IF num < 0 THEN 0 - m ELSE m

\* the rows of the working table that carry an applied rate
Settled(df) == {i \in DOMAIN df : ~IsNA(df[i].Kurs)}

\* a row that was synthesized from a prior-period lot
IsBorrowed(r) == r.Operation = PokupkaPrev
\* the side of a settled row as the normalizer left it
IsBuy(r) == r.Operation = Pokupka \/ IsBorrowed(r)
IsSell(r) == r.Operation = Prodaja

\* C1: every row with an applied rate r has rubAmount = round2(amount * r),
\* negated exactly for a Buy, rubCommission = round2(commission * r) >= 0 and
\* netResult = rubAmount - rubCommission
C1_SettlementFormula ==
    \A i \in Settled(processed) :
        LET r == processed[i]
            k == Val(r.Kurs)
            amt == Round2(r.Sum[1] * k, r.Sum[2] * CentsPerUnit)
        IN /\ r.SumRub = Some(IF IsBuy(r) THEN 0 - amt ELSE amt)
           /\ r.CommRub = Some(Round2(r.Commission[1] * k,
                                      r.Commission[2] * CentsPerUnit))
           /\ Val(r.CommRub) >= 0
           /\ r.Itog = Some(Val(r.SumRub) - Val(r.CommRub))

\* C2: the rate a row carries is the rate of the latest entry of the rate
\* table dated on or before the row's settlement date (so never a later
\* one), and a row that went through settlement carries no rate only when
\* the table has no such entry
C2_AsOfRate ==
    \A i \in DOMAIN processed :
        LET r == processed[i]
            notAfter == {j \in DOMAIN rates : rates[j].data <= r.Settle}
        IN /\ ~IsNA(r.Kurs) =>
                \E j \in notAfter :
                    /\ rates[j].curs = Val(r.Kurs)
                    /\ \A l \in notAfter : rates[l].data <= rates[j].data
           /\ (/\ IsNA(r.Kurs)
               /\ \/ ~IsBorrowed(r)
                  \/ driver = "recalculate_additional_trades" /\ pc = "done")
                => notAfter = {}

\* C2 witness: a borrowed row re-settled at the rate dated exactly on its
\* settlement date while the table also holds an earlier and a later entry,
\* next to an original row settled by the batch join
C2_Witness ==
    /\ driver = "recalculate_additional_trades"
    /\ pc = "done"
    /\ \E i, k \in DOMAIN processed, j, e, l \in DOMAIN rates :
          /\ IsBorrowed(processed[i])
          /\ rates[j].data = processed[i].Settle
          /\ processed[i].Kurs = Some(rates[j].curs)
          /\ rates[e].data < rates[j].data
          /\ rates[e].curs # rates[j].curs
          /\ rates[l].data > rates[j].data
          /\ rates[l].curs # rates[j].curs
          /\ ~IsBorrowed(processed[k])
          /\ ~IsNA(processed[k].Kurs)

\* C10: each rouble column of a row with an applied rate is the exact product
\* rounded to the hundredth, an exact half going away from zero
C10_RoundHalfUp ==
    \A i \in Settled(processed) :
        LET r == processed[i]
            k == Val(r.Kurs)
            HalfUp(v, num, den) ==
                /\ 2 * Abs(v * den - num) <= den
                /\ 2 * Abs(v * den - num) = den => Abs(v) * den > Abs(num)
        IN /\ HalfUp(Abs(Val(r.SumRub)), r.Sum[1] * k, r.Sum[2] * CentsPerUnit)
           /\ HalfUp(Val(r.CommRub), r.Commission[1] * k,
                     r.Commission[2] * CentsPerUnit)


\* sum of f over the index set S
RECURSIVE SumOver(_, _)
SumOver(S, f) ==
    IF S = {} THEN 0
    ELSE LET x == CHOOSE y \in S : TRUE IN f[x] + SumOver(S \ {x}, f)

\* the rows of a ticker in the working table
Idx(t) == {i \in DOMAIN processed : processed[i].Ticker = t}
IdxBuy(t) == {i \in Idx(t) : IsBuy(processed[i])}
IdxSell(t) == {i \in Idx(t) : IsSell(processed[i])}

\* total quantity of the rows S of the working table
Qty(S) == SumOver(S, [i \in DOMAIN processed |-> processed[i].Quantity])
\* total of a rouble column over the rows S that carry a value
Rub(S, col) ==
    SumOver(S, [i \in DOMAIN processed |->
                   IF IsNA(processed[i][col]) THEN 0 ELSE Val(processed[i][col])])

Monolith == driver \in {"main", "main_pdf", "recalculate_additional_trades"}
\* the balance the position summary reports for a ticker
Balance(t) == IF Monolith THEN summary[t].Saldo ELSE summary[t].Ostatok

\* the position summary was computed from the rows the working table holds now
SummaryCurrent ==
    /\ pc \notin {"raised", "calculate_summary_again"}
    /\ driver # "recalculate_additional_trades"

\* C3: for every ticker the balance each aggregator reports is the total
\* quantity of the ticker's Sell rows minus the total quantity of its Buy rows
C3_SignedBalance ==
    /\ SummaryCurrent =>
          \A t \in DOMAIN summary : Balance(t) = Qty(IdxSell(t)) - Qty(IdxBuy(t))
    /\ \A t \in DOMAIN calculated_securities_df :
          calculated_securities_df[t] = Qty(IdxSell(t)) - Qty(IdxBuy(t))

\* the non-Total rows of the closed-position table
ClosedIdx == {k \in DOMAIN closed_summary : closed_summary[k].Ticker # Itogo}

\* C4: the closed-position row of a ticker has totalBuys = -(sum of rubAmount
\* over its Buy rows), totalSells = sum of rubAmount over its Sell rows,
\* totalCommission = sum of rubCommission over all its rows and
\* netResult = totalSells - totalBuys - totalCommission (a row without a
\* rouble value adds nothing to a sum; a Buy row is a row tagged Buy, not a
\* borrowed row tagged Buy of the prior period)
C4_ClosedRow ==
    \A k \in ClosedIdx :
        LET row == closed_summary[k]
            t == row.Ticker
        IN /\ t \in DOMAIN summary
           /\ Balance(t) = 0
           /\ row.SumP = 0 - Rub({i \in IdxBuy(t) : ~IsBorrowed(processed[i])}, "SumRub")
           /\ row.SumS = Rub(IdxSell(t), "SumRub")
           /\ row.SumC = Rub(Idx(t), "CommRub")
           /\ row.Itog = row.SumS - row.SumP - row.SumC

\* C4 witness: Buy -1000.00, Sell 1200.00 and commissions of 20.00 in all
\* give the closed row 1000.00, 1200.00, 20.00, 180.00
C4_Witness ==
    /\ pc = "done"
    /\ \E k \in ClosedIdx :
          /\ closed_summary[k] = [Ticker |-> "A", SumP |-> 100000, SumS |-> 120000,
                                  SumC |-> 2000, Itog |-> 18000]
          /\ Rub(IdxBuy("A"), "SumRub") = 0 - 100000
          /\ Rub(IdxSell("A"), "SumRub") = 120000

\* C5: the closed-position table has no row for a ticker whose balance in the
\* current position summary is not 0, and once it is built it has a row for
\* every ticker whose balance is 0
C5_ClosedIffZero ==
    /\ \A k \in ClosedIdx :
          /\ closed_summary[k].Ticker \in DOMAIN summary
          /\ Balance(closed_summary[k].Ticker) = 0
    /\ (pc = "done" /\ driver # "process") =>
          \A t \in DOMAIN summary :
              Balance(t) = 0 => \E k \in ClosedIdx : closed_summary[k].Ticker = t

\* C5 witness: the table is built, one ticker is closed and has its row, the
\* other has a balance other than 0 and no row
C5_Witness ==
    /\ pc = "done"
    /\ DOMAIN summary = {"A", "B"}
    /\ \E t, u \in DOMAIN summary :
          /\ Balance(t) = 0
          /\ Balance(u) # 0
          /\ \E k \in ClosedIdx : closed_summary[k].Ticker = t
          /\ \A k \in ClosedIdx : closed_summary[k].Ticker # u

\* the borrowed rows of a ticker in the working table
IdxBorrowed(t) == {i \in Idx(t) : IsBorrowed(processed[i])}
\* the prior-period lots of a ticker and their total quantity
LotIdx(t) == {j \in DOMAIN previous_trades.rows : previous_trades.rows[j].Ticker = t}
LotTotal(t) ==
    SumOver(LotIdx(t), [j \in DOMAIN previous_trades.rows |->
                           previous_trades.rows[j].Quantity])
\* |signedBalance| of a ticker with a negative balance in the summary, else 0
Shortfall(t) ==
    IF t \in DOMAIN summary /\ Balance(t) < 0 THEN 0 - Balance(t) ELSE 0

\* a coverage run has just ended, by returning or by raising: the summary is
\* still the one the run read, the working table holds what the run appended
CoverageRan ==
    \/ Monolith /\ pc \in {"recalculate_additional_trades", "raised"}
    \/ driver = "components" /\ pc \in {"calculate_summary_again", "raised"}

\* the records selected for an insufficient ticker and their total quantity
SelectedIdx(t) ==
    {k \in DOMAIN previous_selected_trades_df :
        previous_selected_trades_df[k].TickerIns = t}
SelectedQty(t) ==
    SumOver(SelectedIdx(t), [k \in DOMAIN previous_selected_trades_df |->
                                previous_selected_trades_df[k].Quantity])

\* C6: the borrowed quantity of a ticker in one coverage run never exceeds
\* its shortfall; when the lots total less than the shortfall every lot is
\* consumed, so the residual is the shortfall minus the sum of the lot
\* quantities; the lots selected for an insufficient ticker never total more
\* than the quantity that was needed
C6_BorrowedWithinShortfall ==
    /\ CoverageRan =>
          \A t \in Tickers :
              /\ Qty(IdxBorrowed(t)) <= Shortfall(t)
              /\ (Shortfall(t) > 0 /\ LotTotal(t) < Shortfall(t))
                    => Qty(IdxBorrowed(t)) = LotTotal(t)
    /\ (driver = "process" /\ pc = "done") =>
          \A t \in DOMAIN insufficient_tickers :
              SelectedQty(t) <= needed_amount_of(insufficient_tickers[t])

\* the borrowed rows of a ticker in the order they were appended
BorrowedRows(t) == SelectSeq(processed, LAMBDA r : r.Ticker = t /\ IsBorrowed(r))
\* the prior-period lots of a ticker, most recent settlement first
LotsNewestFirst(t) == SortDesc(RowsOf(previous_trades.rows, t), "Settle")

\* C7: the k-th borrowed row of a ticker comes from its k-th most recent
\* lot, has quantity min(lot.quantity, shortfall - consumed so far), the
\* lot's amount and commission times use / lot.quantity, the tag of a
\* prior-period purchase and no rate; no row is synthesized once the
\* shortfall is consumed, and the walk ends before the last lot only then
C7_BorrowedTrade ==
    CoverageRan =>
        \A t \in Tickers :
            LET rows == BorrowedRows(t)
                lots == LotsNewestFirst(t)
                consumed(k) == SumOver(1..k, [j \in DOMAIN rows |-> rows[j].Quantity])
            IN /\ Len(rows) <= Len(lots)
               /\ \A k \in DOMAIN rows :
                     LET use == Min2(lots[k].Quantity, Shortfall(t) - consumed(k - 1))
                     IN /\ consumed(k - 1) < Shortfall(t)
                        /\ rows[k].Quantity = use
                        /\ rows[k].Sum[1] * lots[k].Quantity
                              = lots[k].Sum * use * rows[k].Sum[2]
                        /\ rows[k].Commission[1] * lots[k].Quantity
                              = lots[k].Commission * use * rows[k].Commission[2]
                        /\ rows[k].Operation = PokupkaPrev
                        /\ rows[k].Kurs = None
               /\ (Shortfall(t) > 0 /\ Len(rows) < Len(lots))
                     => consumed(Len(rows)) >= Shortfall(t)

\* the rows of the period: the rows of a ticker that are not borrowed
IdxOwn(t) == Idx(t) \ IdxBorrowed(t)

\* C8: when the run is over, a ticker traded in Buy and Sell rows only whose
\* sells of the period exceed its buys by s > 0 and whose prior-period lots
\* total at least s has borrowed rows and a balance of 0
C8_CoverageClosesShort ==
    (pc = "done" /\ driver \in {"main", "components"} /\ previous_trades.given) =>
        \A t \in DOMAIN summary :
            LET s == Qty(IdxOwn(t) \cap IdxSell(t)) - Qty(IdxOwn(t) \cap IdxBuy(t))
            IN (/\ s > 0
                /\ IdxOwn(t) \subseteq IdxSell(t) \union IdxBuy(t)
                /\ LotTotal(t) >= s)
               => /\ IdxBorrowed(t) # {}
                  /\ Balance(t) = 0

\* C9: a ticker of the merged balance table is reported insufficient exactly
\* when neither (computed = 0 and declared absent) nor computed = declared
\* holds, the computed balance being the calculated one and the declared
\* balance the one of the broker report
C9_Insufficient ==
    (driver = "process" /\ pc \in {"_handle_previous_trades_if_needed", "done"}) =>
        /\ DOMAIN merged_securities_df
              = (DOMAIN securities_df) \union (DOMAIN calculated_securities_df)
        /\ \A t \in DOMAIN merged_securities_df :
              LET computed == IF t \in DOMAIN calculated_securities_df
                              THEN Some(calculated_securities_df[t]) ELSE NaN
                  declared == IF t \in DOMAIN securities_df
                              THEN securities_df[t] ELSE NaN
                  isSufficient ==
                      \/ computed = Some(0) /\ IsNA(declared)
                      \/ ~IsNA(computed) /\ computed = declared
              IN /\ merged_securities_df[t] = [calc |-> computed, end |-> declared]
                 /\ (t \in DOMAIN insufficient_tickers) <=> ~isSufficient

\* C9 witness: one ticker with a computed balance of 0 and no declared
\* balance is sufficient, another with a computed balance of 0 and a declared
\* balance above 0 is insufficient
C9_Witness ==
    /\ driver = "process"
    /\ pc = "done"
    /\ \E t, u \in DOMAIN merged_securities_df :
          /\ merged_securities_df[t].calc = Some(0)
          /\ IsNA(merged_securities_df[t].end)
          /\ t \notin DOMAIN insufficient_tickers
          /\ merged_securities_df[u].calc = Some(0)
          /\ ~IsNA(merged_securities_df[u].end)
          /\ Val(merged_securities_df[u].end) > 0
          /\ u \in DOMAIN insufficient_tickers

\* C11: when the run is over every rouble field of every row of the working
\* table and the result of every ticker of the summary hold a value (the
\* model keeps every present value in whole hundredths)
C11_MonetaryPopulated ==
    (pc = "done" /\ driver \in {"main", "components"}) =>
        /\ \A i \in DOMAIN processed :
              /\ ~IsNA(processed[i].SumRub)
              /\ ~IsNA(processed[i].CommRub)
              /\ ~IsNA(processed[i].Itog)
        /\ \A t \in DOMAIN summary : ~IsNA(summary[t].Result)

\* the rows that went through a settlement pass: the rows of the period, and
\* the borrowed rows once the re-settlement has run
Resettled == driver = "recalculate_additional_trades" /\ pc = "done"
PassedSettlement(i) == ~IsBorrowed(processed[i]) \/ Resettled

\* C12: a row whose settlement date precedes every entry of the rate table
\* is settled at rate 0: rubAmount, rubCommission and netResult are 0.00
C12_ZeroRateFallback ==
    \A i \in DOMAIN processed :
        (/\ PassedSettlement(i)
         /\ \A j \in DOMAIN rates : rates[j].data > processed[i].Settle)
        => /\ processed[i].SumRub = Some(0)
           /\ processed[i].CommRub = Some(0)
           /\ processed[i].Itog = Some(0)

\* the balance of a ticker over the rows of the period alone, with the sign
\* of the aggregator of the revision, and the shortfall it stands for
OwnBalance(t) ==
    LET buys == Qty(IdxOwn(t) \cap IdxBuy(t))
        others == Qty(IdxOwn(t) \ IdxBuy(t))
    IN IF Monolith THEN others - buys ELSE buys - others
OwnShortfall(t) == IF OwnBalance(t) < 0 THEN 0 - OwnBalance(t) ELSE 0

\* C13: a run in which every ticker with a negative balance has lots that
\* total less than its shortfall does not raise, and when the run is over
\* such a ticker has a balance other than 0 and no closed-position row
C13_InsufficientLotsRecovered ==
    (driver \in {"main", "components"} /\ previous_trades.given) =>
        /\ pc = "raised" =>
              \E t \in Tickers : Shortfall(t) > 0 /\ LotTotal(t) >= Shortfall(t)
        /\ pc = "done" =>
              \A t \in DOMAIN summary :
                  (OwnShortfall(t) > 0 /\ LotTotal(t) < OwnShortfall(t))
                  => /\ Balance(t) # 0
                     /\ \A k \in ClosedIdx : closed_summary[k].Ticker # t

\* the rows and lines of the input every cell of which can be parsed (a
\* line of a batch transfer is no trade and is left out by design)
WellFormedTrades == {i \in DOMAIN trades : trades[i].Malformed = WellFormed}
WellFormedLines ==
    {i \in DOMAIN pdf_lines : /\ pdf_lines[i].Malformed = WellFormed
                              /\ ~Contains(pdf_lines[i].Note, BatchTransferTFOS)}

\* C14: a malformed row never aborts the PDF line parser or the settlement
\* step, and what either returns holds the well-formed rows and only them
C14_MalformedRowSkipped ==
    /\ driver \in {"pdf", "merge_and_calculate", "_process_data"} => pc # "raised"
    /\ (driver = "pdf" /\ pc = "loaded")
          => Len(pdf_trades) = Cardinality(WellFormedLines)
    /\ (driver \in {"merge_and_calculate", "_process_data"} /\ pc = "done")
          => Len(processed) = Cardinality(WellFormedTrades)

\* what a run of the pipeline up to the first position summary makes of
\* the inputs, and the closed table built from it
FirstRun ==
    IF Monolith
    THEN LET p == merge_and_calculate(trades, rates)
             s == aggregate_summary(p)
         IN [processed |-> p, summary |-> s, closed |-> compute_closed_summary(p, s)]
    ELSE LET p == calculate_rub_amounts(
                      merge_with_rates(normalize_operations(trades), rates))
             s == calculate_summary(p)
         IN [processed |-> p, summary |-> s, closed |-> calculate_closed_positions(p, s)]
NoNegativeIn(summ) ==
    \A t \in DOMAIN summ :
        IF Monolith THEN summ[t].Saldo >= 0 ELSE summ[t].Ostatok >= 0
NoNegativeBalance == NoNegativeIn(FirstRun.summary)
\* the coverage step, and in process_trades.py the re-settlement, have run,
\* or main() has finished
CoverageStepsDone ==
    \/ Resettled
    \/ driver = "main" /\ pc = "done"
    \/ driver = "components"
          /\ pc \in {"calculate_summary_again", "calculate_closed_positions", "done"}

\* C15: when no ticker has a negative balance the coverage step and the
\* re-settlement step leave the trade table as the settlement made it, and
\* the summary and the closed table at the end are those a run over the same
\* input computes
C15_NoShortfallUnchanged ==
    (driver \in {"recalculate_additional_trades", "main", "components"}
        /\ previous_trades.given
        /\ (pc = "raised" \/ CoverageStepsDone) /\ ~SettlementRaises(trades))
    => LET first == FirstRun
       IN NoNegativeIn(first.summary) =>
            /\ pc # "raised"
            /\ processed = first.processed
            /\ summary = first.summary
            /\ (driver \in {"main", "components"} /\ pc = "done")
                  => closed_summary = first.closed
\* a finished run without a negative balance in which coverage and
\* re-settlement met a lot of the ticker and a row settled without a rate
C15_Witness ==
    /\ driver = "recalculate_additional_trades" /\ pc = "done" /\ NoNegativeBalance
    /\ \E i \in DOMAIN processed :
          /\ IsNA(processed[i].Kurs)
          /\ \E k \in DOMAIN previous_trades.rows :
                previous_trades.rows[k].Ticker = processed[i].Ticker

\* the 'Итого' rows of the closed-position table
TotalIdx == {k \in DOMAIN closed_summary : closed_summary[k].Ticker = Itogo}
\* the sum of a column over the rows of the closed table that are not 'Итого'
ClosedColumn(col) == SumOver(ClosedIdx, [k \in ClosedIdx |-> closed_summary[k][col]])

\* C16: each of the four monetary columns of the Total row is the sum of
\* that column over the other rows of the closed table, rounded to 0.01
C16_TotalRow ==
    \A k \in TotalIdx :
        /\ closed_summary[k].SumP = Round2(ClosedColumn("SumP"), 1)
        /\ closed_summary[k].SumS = Round2(ClosedColumn("SumS"), 1)
        /\ closed_summary[k].SumC = Round2(ClosedColumn("SumC"), 1)
        /\ closed_summary[k].Itog = Round2(ClosedColumn("Itog"), 1)
\* a closed table of two tickers and their Total row, every total unlike
\* the value of either row
C16_Witness ==
    /\ pc = "done"
    /\ Cardinality(ClosedIdx) = 2
    /\ \E k \in TotalIdx : \A j \in ClosedIdx :
          /\ closed_summary[j].SumP # 0 /\ closed_summary[j].SumS # 0
          /\ closed_summary[j].SumC # 0 /\ closed_summary[j].Itog # 0
          /\ closed_summary[k].Itog # closed_summary[j].Itog

\* a run of one of the drivers that build the closed table has finished
ClosedTableBuilt == pc = "done" /\ driver \in {"main", "main_pdf", "components"}
\* the closed table has exactly one row for every ticker whose balance is 0
\* and none for another ticker
OneRowPerClosedTicker ==
    /\ \A t \in DOMAIN summary :
          Cardinality({k \in ClosedIdx : closed_summary[k].Ticker = t})
              = IF Balance(t) = 0 THEN 1 ELSE 0
    /\ \A k \in ClosedIdx : closed_summary[k].Ticker \in DOMAIN summary

\* C17 as stated: the closed table has one row per ticker of balance 0 and
\* exactly one Total row, also when no ticker is closed
C17_OneTotalAlways ==
    ClosedTableBuilt => OneRowPerClosedTicker /\ Cardinality(TotalIdx) = 1

\* C17: the closed table has one row per ticker of balance 0, followed by
\* exactly one Total row when some ticker is closed; when no ticker is
\* closed the table is empty
C17_ClosedTable ==
    ClosedTableBuilt =>
        /\ OneRowPerClosedTicker
        /\ IF ClosedIdx = {} THEN closed_summary = <<>>
           ELSE TotalIdx = {Len(closed_summary)}
\* a finished run with positions of which none is closed
C17_Witness ==
    /\ ClosedTableBuilt
    /\ DOMAIN summary = {"A", "B"}
    /\ \A t \in DOMAIN summary : Balance(t) # 0
    /\ closed_summary = <<>>

\* the lexicons of the normalizer, in lower case
BuyLexicon == {<<"p", "o", "k", "u", "p">>, <<"k", "u", "p", "l">>, <<"b", "u", "y">>}
SellLexicon == {<<"p", "r", "o", "d", "a", "j">>, <<"s", "e", "l", "l">>}
HasToken(label, lexicon) == \E token \in lexicon : Contains(Lower(label), token)
\* a row of the loaded table and the row the settlement step made of it
Normalized(j, i) ==
    /\ driver \in {"merge_and_calculate", "_process_data"} /\ pc = "done"
    /\ j \in DOMAIN trades /\ i \in DOMAIN processed
    /\ {"Ticker", "Operation"} \subseteq DOMAIN trades[j]
    /\ trades[j].Ticker = processed[i].Ticker

\* C18 as stated: a label with a token of the buy lexicon becomes Buy, one
\* with a token of the sell lexicon Sell, and any other label is passed
\* through unchanged
C18_PassedUnchanged ==
    \A j \in DOMAIN trades, i \in DOMAIN processed : Normalized(j, i) =>
        processed[i].Operation =
            IF HasToken(trades[j].Operation, BuyLexicon) THEN Pokupka
            ELSE IF HasToken(trades[j].Operation, SellLexicon) THEN Prodaja
            ELSE trades[j].Operation

\* C18: the normalizer searches the label, whatever its case, for the tokens
\* of the lexicons: Buy when it holds one of the buy lexicon, Sell when it
\* holds one of the sell lexicon and none of the buy lexicon, and otherwise
\* the label with the blanks around it stripped
C18_Normalizer ==
    \A j \in DOMAIN trades, i \in DOMAIN processed : Normalized(j, i) =>
        processed[i].Operation =
            IF HasToken(trades[j].Operation, BuyLexicon) THEN Pokupka
            ELSE IF HasToken(trades[j].Operation, SellLexicon) THEN Prodaja
            ELSE Strip(trades[j].Operation)
\* a composite label classified as Buy next to an upper-case label classified
\* as Sell
C18_Witness ==
    \E j, k \in DOMAIN trades, i, l \in DOMAIN processed :
        /\ Normalized(j, i) /\ Normalized(k, l)
        /\ Len(trades[j].Operation) > Len(Pokupka)
        /\ trades[j].Operation # Lower(trades[j].Operation)
        /\ Contains(trades[j].Operation, <<".", " ">>)
        /\ processed[i].Operation = Pokupka
        /\ trades[k].Operation = <<"S", "E", "L", "L">>
        /\ processed[l].Operation = Prodaja

\* C19: in the coverage path of main() the aggregation that ends the
\* coverage handler runs over a table none of whose rows lacks its net
\* result, and the summary and the closed table of a finished run are those
\* of the final table
C19_AggregateAfterResettle ==
    [][/\ (driver = "main" /\ pc = "process_negative_balance")
            => \A i \in DOMAIN processed' : processed'[i].Itog # None
       /\ (driver = "main" /\ previous_trades.given /\ pc' = "done")
            => /\ summary' = aggregate_summary(processed')
               /\ closed_summary' = compute_closed_summary(processed', summary')]_vars

\* the rows NegativeBalanceHandler appended for a lot, and the records the
\* selector of the reconciliation made of it
RowsFromLot(lot) ==
    {i \in DOMAIN processed :
        /\ IsBorrowed(processed[i]) /\ processed[i].Ticker = lot.Ticker
        /\ processed[i].TradeDate = Some(lot.TradeDate)
        /\ processed[i].Settle = lot.Settle}
RecordsFromLot(lot) ==
    {k \in DOMAIN previous_selected_trades_df :
        /\ previous_selected_trades_df[k].TickerIns = lot.Ticker
        /\ previous_selected_trades_df[k].TradeDate = lot.TradeDate}
\* the lot was used, and it was consumed in full
LotUsed(lot) ==
    IF driver = "components" THEN RowsFromLot(lot) # {} ELSE RecordsFromLot(lot) # {}
LotConsumed(lot) ==
    IF driver = "components"
    THEN \E i \in RowsFromLot(lot) : processed[i].Quantity = lot.Quantity
    ELSE \E k \in RecordsFromLot(lot) :
            previous_selected_trades_df[k].Quantity = lot.Quantity

\* C20: a prior-period lot of a ticker is used only if every lot of the
\* ticker with a later trade date has been consumed in full
C20_NewestTradeFirst ==
    (\/ driver = "components" /\ CoverageRan
     \/ driver = "process" /\ pc = "done")
    => \A j, k \in DOMAIN previous_trades.rows :
          LET lot == previous_trades.rows[j]
              later == previous_trades.rows[k]
          IN (/\ lot.Ticker = later.Ticker
              /\ later.TradeDate > lot.TradeDate
              /\ later.Quantity > 0
              /\ LotUsed(lot)) => LotConsumed(later)

\* the working table before a step is a prefix of the table after it
Appended == /\ Len(processed') >= Len(processed)
            /\ SubSeq(processed', 1, Len(processed)) = processed
\* the tickers of the rows a step appended
AppendedTickers ==
    {processed'[i].Ticker : i \in (Len(processed) + 1)..Len(processed')}

\* C21: the coverage step only appends rows, and only rows of tickers whose
\* balance in the summary is negative; the re-settlement step keeps the
\* number of rows and every row that had a rate; no later step writes the
\* working table
C21_AppendOnly ==
    [][/\ pc \in {"process_negative_balance", "process_negative_balance_mod"}
            => /\ Appended
               /\ \A t \in AppendedTickers : t \in DOMAIN summary /\ Balance(t) < 0
       /\ pc = "recalculate_additional_trades"
            => /\ Len(processed') = Len(processed)
               /\ \A i \in DOMAIN processed :
                     ~IsNA(processed[i].Kurs) => processed'[i] = processed[i]
       /\ pc \notin {"merge_and_calculate", "_process_data", "process_negative_balance",
                     "process_negative_balance_mod", "recalculate_additional_trades"}
            => processed' = processed]_vars
\* after a re-settlement the table holds a borrowed row that got its rate
\* next to a row of the period that had one
C21_Witness ==
    /\ driver = "recalculate_additional_trades" /\ pc = "done"
    /\ \E i, j \in DOMAIN processed :
          /\ IsBorrowed(processed[i]) /\ ~IsNA(processed[i].Kurs)
          /\ ~IsBorrowed(processed[j]) /\ ~IsNA(processed[j].Kurs)

\* the working table holds a row borrowed from the lot, or the selection of
\* the reconciliation a record made of it
Borrowed(lot) ==
    \/ \E i \in DOMAIN processed :
          /\ IsBorrowed(processed[i]) /\ processed[i].Ticker = lot.Ticker
          /\ processed[i].Settle = lot.Settle
    \/ RecordsFromLot(lot) # {}

\* C22: a prior-period row is borrowed as a purchase lot only if the
\* normalizer classifies its label as Buy
C22_BuyLotsOnly ==
    \A j \in DOMAIN previous_trades.rows :
        Borrowed(previous_trades.rows[j])
            => NormalizeOperation(previous_trades.rows[j].Operation) = Pokupka

\* C23: the net result of a ticker's row in the closed table is the
\* ticker's result in the position summary
C23_ClosedResultIsSummaryResult ==
    ClosedTableBuilt =>
        \A k \in ClosedIdx :
            summary[closed_summary[k].Ticker].Result = Some(closed_summary[k].Itog)

\* the quantity borrowed from a lot so far
BorrowedFromLot(lot) ==
    SumOver(RowsFromLot(lot), [i \in DOMAIN processed |-> processed[i].Quantity])

\* C24: over a sequence of coverage runs on one prior-period pool, each
\* followed by the summary of the extended table, the quantity borrowed from
\* a lot never exceeds the quantity of the lot
C24_LotNeverOverdrawn ==
    driver = "repeat" =>
        \A j \in DOMAIN previous_trades.rows :
            BorrowedFromLot(previous_trades.rows[j]) <= previous_trades.rows[j].Quantity

\* the rows of a ticker whose label is of neither lexicon, and the balance
\* the aggregator of the running revision gives the other rows of the ticker
IdxUnresolved(t) == Idx(t) \ (IdxBuy(t) \cup IdxSell(t))
Resolved(t) ==
    SelectSeq(processed, LAMBDA r : r.Ticker = t /\ (IsBuy(r) \/ IsSell(r)))
ResolvedBalance(t) ==
    IF Monolith THEN SumSignedMono(Resolved(t)) ELSE SumSignedMod(Resolved(t))

\* C25: in every aggregator the rows of a ticker whose label is unresolved
\* add their quantity, unsigned, to the balance of the ticker
C25_UnresolvedAddsQuantity ==
    /\ SummaryCurrent =>
          \A t \in DOMAIN summary :
              Balance(t) = ResolvedBalance(t) + Qty(IdxUnresolved(t))
    /\ \A t \in DOMAIN calculated_securities_df :
          calculated_securities_df[t]
              = SumSignedMod(Resolved(t)) + Qty(IdxUnresolved(t))

\* C26: every row of the working table, of the period or borrowed, has a
\* quantity of 0 or more
C26_QuantityIsMagnitude ==
    driver \in {"main", "main_pdf", "recalculate_additional_trades", "components",
                "repeat", "process"} =>
        \A i \in DOMAIN processed : processed[i].Quantity >= 0

\* C27: when the trade table lacks a whole column, normalization creates it
\* with the documented default (0 for a numeric column, the current timestamp
\* for a date column) and the run goes on, except that a table without the
\* operation column or without the ticker column never gets through
\* normalization: the run aborts
MissingColumns ==
    IF trades = <<>> THEN {} ELSE RequiredColumns \ DOMAIN trades[1]

DocumentedDefault(col) ==
    CASE col = "Quantity" -> 0
      [] col \in {"Sum", "Commission"} -> <<0, 1>>
      [] OTHER -> Now

C27_MissingColumnDefaults ==
    (driver = "_process_data" /\ MissingColumns # {}) =>
        IF MissingColumns \cap {"Operation", "Ticker"} # {}
        THEN pc \in {"_process_data", "raised"}
        ELSE pc = "done" =>
                \A i \in DOMAIN processed : \A col \in MissingColumns :
                    processed[i][col] = DocumentedDefault(col)

\* the records the selector made for a ticker, in the order it made them, and
\* the prior-period lots it could take: the rows of the ticker that normalize
\* to Buy and have a quantity other than 0
RecordsOf(t) ==
    SelectSeq(previous_selected_trades_df, LAMBDA rec : rec.TickerIns = t)
BuyLots(t) ==
    {j \in DOMAIN previous_trades.rows :
        /\ previous_trades.rows[j].Ticker = t
        /\ NormalizeOperation(previous_trades.rows[j].Operation) = Pokupka
        /\ previous_trades.rows[j].Quantity # 0}
\* recs are lots of the set, each taken once, in descending trade-date order,
\* and no lot left out was traded after the last one taken
IsNewestPrefix(recs, lots) ==
    \E f \in [DOMAIN recs -> lots] :
        /\ \A i, j \in DOMAIN recs : i # j => f[i] # f[j]
        /\ \A i \in DOMAIN recs :
              /\ recs[i].TradeDate = previous_trades.rows[f[i]].TradeDate
              /\ recs[i].Quantity = Abs(previous_trades.rows[f[i]].Quantity)
        /\ \A i, j \in DOMAIN recs :
              i < j => recs[i].TradeDate >= recs[j].TradeDate
        /\ \A j \in lots \ {f[i] : i \in DOMAIN recs} :
              previous_trades.rows[j].TradeDate <= recs[Len(recs)].TradeDate

\* C28: for an insufficient ticker with needed quantity n > 0 the selector
\* takes the shortest prefix, newest trade first, of the ticker's Buy lots of
\* positive quantity whose quantities add up to n or more (all of them if they
\* add up to less); the usage order is 1..k, the accumulated quantity is the
\* strictly increasing running sum, and only the last lot taken brings it to
\* n or above
C28_ShortestNewestPrefix ==
    (driver = "process" /\ pc = "done") =>
        \A t \in DOMAIN insufficient_tickers :
            LET n == needed_amount_of(insufficient_tickers[t])
                recs == RecordsOf(t)
                lots == IF previous_trades.given THEN BuyLots(t) ELSE {}
            IN n > 0 =>
                /\ IF recs = <<>> THEN lots = {}
                   ELSE /\ IsNewestPrefix(recs, lots)
                        /\ Len(recs) < Cardinality(lots) => recs[Len(recs)].Accum >= n
                /\ \A i \in DOMAIN recs :
                      /\ recs[i].Order = i
                      /\ recs[i].Needed = n
                      /\ recs[i].Accum = SumSeq([j \in 1..i |-> recs[j].Quantity])
                      /\ i > 1 => recs[i].Accum > recs[i - 1].Accum
                      /\ i < Len(recs) => recs[i].Accum < n

\* two lots are taken, the newer one first, and the second brings the
\* accumulated quantity past the needed one
C28_Witness ==
    /\ driver = "process" /\ pc = "done"
    /\ "A" \in DOMAIN insufficient_tickers
    /\ needed_amount_of(insufficient_tickers["A"]) = 2
    /\ Len(RecordsOf("A")) = 2
    /\ RecordsOf("A")[1].Accum = 1
    /\ RecordsOf("A")[2].Accum = 3
    /\ RecordsOf("A")[1].TradeDate > RecordsOf("A")[2].TradeDate

\* the prior-period pool holds a lot of the ticker with quantity 0
HasZeroLot(t) ==
    /\ previous_trades.given
    /\ \E j \in LotIdx(t) : previous_trades.rows[j].Quantity = 0

\* C29: a prior-period lot of quantity 0 never makes the coverage step fail:
\* the run does not raise, the lot adds nothing to the borrowed quantity, and
\* the other lots of the ticker are consumed as without it (up to the
\* shortfall in a coverage run, up to the needed quantity in the selector)
C29_ZeroLotHarmless ==
    \A t \in Tickers :
        HasZeroLot(t) =>
            /\ (driver = "components" /\ CoverageRan) =>
                  /\ pc # "raised"
                  /\ Qty(IdxBorrowed(t)) = Min2(Shortfall(t), LotTotal(t))
            /\ (driver = "process" /\ pc = "done" /\ t \in DOMAIN insufficient_tickers) =>
                  /\ \A k \in SelectedIdx(t) : previous_selected_trades_df[k].Quantity > 0
                  /\ SelectedQty(t) >=
                        Min2(needed_amount_of(insufficient_tickers[t]), LotTotal(t))

\* C30: the normalizer is idempotent: a label it returned is returned
\* unchanged when normalized again, in the PDF loader and in the settlement
\* step of either revision, so a record normalized by the PDF loader and then
\* by the pipeline keeps the tag the loader gave it
C30_NormalizeIdempotent ==
    /\ \A j \in DOMAIN pdf_trades :
          NormalizeOperation(pdf_trades[j].Operation) = pdf_trades[j].Operation
    /\ (driver = "main_pdf" /\ pc # "preprocess") =>
          \A j \in DOMAIN trades :
              NormalizeOperation(trades[j].Operation) = trades[j].Operation
    /\ \A i \in DOMAIN processed :
          ~IsBorrowed(processed[i]) =>
              NormalizeOperation(processed[i].Operation) = processed[i].Operation
    /\ (driver = "main_pdf" /\ pc = "done") =>
          \A j \in DOMAIN trades, i \in DOMAIN processed :
              trades[j].Ticker = processed[i].Ticker =>
                  processed[i].Operation = trades[j].Operation

\* a PDF line labelled with an old-style purchase and one labelled with
\* neither lexicon went through the loader and the pipeline: the first is
\* tagged Buy and the second keeps its label
C30_Witness ==
    /\ driver = "main_pdf" /\ pc = "done"
    /\ \E j, k \in DOMAIN pdf_lines, i, l \in DOMAIN processed :
          /\ pdf_lines[j].Operation = Kuplya
          /\ processed[i].Ticker = pdf_lines[j].Ticker
          /\ processed[i].Operation = Pokupka
          /\ pdf_lines[k].Operation = Perevod
          /\ processed[l].Ticker = pdf_lines[k].Ticker
          /\ processed[l].Operation = Perevod

=============================================================================
